---------------------------- MODULE Spec2Model ----------------------------
(***************************************************************************)
(* Model of the agent control loop (agent_loop.py: run_agent_loop) and of  *)
(* the tool dispatcher and session it drives (tools.py).                   *)
(*                                                                         *)
(* A Python string is a sequence of string fragments; texts the code       *)
(* inspects (planner text, paths) are sequences of one-character strings,  *)
(* so that startswith, substring search, lower() and split() are computed. *)
(* Concatenation (+, f-strings) is \o.                                     *)
(***************************************************************************)
EXTENDS Integers, Sequences, FiniteSets, TLC

(***************************************************************************)
(* Bounds of the model.                                                    *)
(***************************************************************************)
\* the caller's max_steps ranges over 0..MaxStepsBound
MaxStepsBound == 3
\* the planner proposes at most MaxCallsPerTurn invocations in one response
MaxCallsPerTurn == 2
\* the planner proposes at most MaxInvocations invocations in one run
MaxInvocations == 2
\* the runs of a process make at most MaxDispatches tool calls in all
MaxDispatches == 2

\* a run that works on files makes at most MaxFileCalls tool calls
MaxFileCalls == 3

(***************************************************************************)
(* Strings.                                                                *)
(***************************************************************************)
UpperCase == <<"A", "B", "C", "D", "E", "F", "G", "H", "I", "J", "K", "L", "M",
               "N", "O", "P", "Q", "R", "S", "T", "U", "V", "W", "X", "Y", "Z">>

LowerCase == <<"a", "b", "c", "d", "e", "f", "g", "h", "i", "j", "k", "l", "m",
               "n", "o", "p", "q", "r", "s", "t", "u", "v", "w", "x", "y", "z">>

\* str.lower() on one character
LowerChar(c) ==
    IF \E i \in 1..Len(UpperCase) : UpperCase[i] = c
    THEN LowerCase[CHOOSE i \in 1..Len(UpperCase) : UpperCase[i] = c]
    ELSE c

\* str.lower()
Lower(s) == [i \in 1..Len(s) |-> LowerChar(s[i])]

\* `sub in s`
Contains(s, sub) ==
    \E i \in 0..(Len(s) - Len(sub)) : SubSeq(s, i + 1, i + Len(sub)) = sub

\* s.startswith(p)
StartsWith(s, p) == Len(s) >= Len(p) /\ SubSeq(s, 1, Len(p)) = p

\* s[i:] with a 0-based index i
From(s, i) == SubSeq(s, i + 1, Len(s))

\* s.find(c, start): the 0-based index of the first c at or after start, else -1
Find(s, c, start) ==
    IF \E i \in (start + 1)..Len(s) : s[i] = c
    THEN (CHOOSE i \in (start + 1)..Len(s) :
              s[i] = c /\ \A j \in (start + 1)..(i - 1) : s[j] # c) - 1
    ELSE -1

RECURSIVE Split(_, _)
\* s.split(c): the list of the fields of s separated by the character c
Split(s, c) ==
    LET i == Find(s, c, 0)
    IN  IF i < 0 THEN <<s>>
        ELSE <<SubSeq(s, 1, i)>> \o Split(From(s, i + 1), c)

RECURSIVE Join(_, _)
\* c.join(parts)
Join(parts, c) ==
    IF parts = <<>> THEN <<>>
    ELSE IF Len(parts) = 1 THEN parts[1]
    ELSE parts[1] \o <<c>> \o Join(Tail(parts), c)

RECURSIVE RStrip(_, _)
\* s.rstrip(c)
RStrip(s, c) ==
    IF s # <<>> /\ s[Len(s)] = c THEN RStrip(SubSeq(s, 1, Len(s) - 1), c) ELSE s


(***************************************************************************)
(* The environment of the process: home directory, user database, process  *)
(* working directory and the initial file system.  The platform is POSIX   *)
(* (sys.platform is neither "win32" nor "darwin").                         *)
(***************************************************************************)
\* str(Path.home())
Home == <<"/", "h">>

\* os.getcwd() of the process (never changed by the program)
ProcessCwd == <<"/", "w">>

\* dict(os.environ) at the time a ShellSession is constructed
OsEnviron == [HOME |-> Home]

\* pwd.getpwnam: the home directories of the users the system knows
UserHomes == [u \in {<<"u">>} |-> Home]

DirNode == [kind |-> "dir"]

FileNode(content) == [kind |-> "file", content |-> content]

\* the file system when the program starts
InitFs ==
    (<<"/">> :> DirNode) @@
    (<<"/", "h">> :> DirNode) @@
    (<<"/", "w">> :> DirNode) @@
    (<<"/", "h", "/", "d">> :> DirNode) @@
    (<<"/", "h", "/", "f">> :> FileNode(<<"a", "\n", "b">>))

(***************************************************************************)
(* posixpath                                                               *)
(***************************************************************************)
\* os.path.isabs
IsAbs(path) == StartsWith(path, <<"/">>)

\* os.path.join(a, b)
PathJoin(a, b) ==
    IF IsAbs(b) THEN b
    ELSE IF a = <<>> \/ a[Len(a)] = "/" THEN a \o b
    ELSE a \o <<"/">> \o b

RECURSIVE PathJoinAll(_, _)
\* os.path.join(a, *parts)
PathJoinAll(a, parts) ==
    IF parts = <<>> THEN a ELSE PathJoinAll(PathJoin(a, Head(parts)), Tail(parts))

\* os.path.expanduser
ExpandUser(path) ==
    IF ~StartsWith(path, <<"~">>) THEN path
    ELSE LET f == Find(path, "/", 1)
             i == IF f < 0 THEN Len(path) ELSE f
             name == SubSeq(path, 2, i)
         IN  IF i # 1 /\ name \notin DOMAIN UserHomes THEN path
             ELSE LET userhome == RStrip(IF i = 1 THEN OsEnviron.HOME
                                         ELSE UserHomes[name], "/")
                      r == userhome \o From(path, i)
                  IN  IF r = <<>> THEN <<"/">> ELSE r

RECURSIVE NormComps(_, _, _)
\* the loop of os.path.normpath over the components of the path
NormComps(comps, initial_slashes, new_comps) ==
    IF comps = <<>> THEN new_comps
    ELSE LET comp == Head(comps)
         IN  IF comp = <<>> \/ comp = <<".">>
             THEN NormComps(Tail(comps), initial_slashes, new_comps)
             ELSE IF \/ comp # <<".", ".">>
                     \/ (initial_slashes = 0 /\ new_comps = <<>>)
                     \/ (new_comps # <<>> /\ new_comps[Len(new_comps)] = <<".", ".">>)
             THEN NormComps(Tail(comps), initial_slashes, Append(new_comps, comp))
             ELSE IF new_comps # <<>>
             THEN NormComps(Tail(comps), initial_slashes,
                            SubSeq(new_comps, 1, Len(new_comps) - 1))
             ELSE NormComps(Tail(comps), initial_slashes, new_comps)

\* os.path.normpath
NormPath(path) ==
    IF path = <<>> THEN <<".">>
    ELSE LET initial_slashes ==
                 IF ~StartsWith(path, <<"/">>) THEN 0
                 ELSE IF StartsWith(path, <<"/", "/">>) /\ ~StartsWith(path, <<"/", "/", "/">>)
                 THEN 2 ELSE 1
             joined == Join(NormComps(Split(path, "/"), initial_slashes, <<>>), "/")
             r == [i \in 1..initial_slashes |-> "/"] \o joined
         IN  IF r = <<>> THEN <<".">> ELSE r

\* os.path.abspath
AbsPath(path) ==
    NormPath(IF IsAbs(path) THEN path ELSE PathJoin(ProcessCwd, path))

(***************************************************************************)
(* tools.py: path expansion                                                *)
(***************************************************************************)
\* _get_windows_known_folder off Windows: always None
get_windows_known_folder(folder_name) == [found |-> FALSE, path |-> <<>>]

\* str.replace("\\", "/")
ReplaceBackslash(path) == [i \in 1..Len(path) |-> IF path[i] = "\\" THEN "/" ELSE path[i]]

KnownFolders ==
    { <<"d", "e", "s", "k", "t", "o", "p">>,
      <<"d", "o", "c", "u", "m", "e", "n", "t", "s">>,
      <<"d", "o", "w", "n", "l", "o", "a", "d", "s">> }

\* _expand_path without the test of lines 69-70: a path with the home marker
\* is handled as any relative path
expand_path_no_home(path, cwd) ==
    IF path = <<>> THEN cwd
    ELSE IF IsAbs(path) THEN path
    ELSE PathJoin(cwd, path)

expand_path(path, cwd) ==
    IF path = <<>> THEN cwd
    ELSE IF StartsWith(path, <<"~">>) THEN ExpandUser(path)
    ELSE IF IsAbs(path) THEN path
    ELSE LET normalized == ReplaceBackslash(path)
             parts == Split(normalized, "/")
             first_part == Lower(parts[1])
             known_path == get_windows_known_folder(first_part)
         IN  IF first_part \in KnownFolders /\ known_path.found
             THEN IF Len(parts) > 1 THEN PathJoinAll(known_path.path, Tail(parts))
                  ELSE known_path.path
             ELSE PathJoin(cwd, path)

(***************************************************************************)
(* The file system as the operating system resolves paths in it.           *)
(***************************************************************************)
\* the parent directory of a normalised absolute path
Parent(path) ==
    LET comps == Split(path, "/")
        up == Join(SubSeq(comps, 1, Len(comps) - 1), "/")
    IN  IF up = <<>> THEN <<"/">> ELSE up

\* the child `name` of the directory dir
Child(dir, name) == IF dir = <<"/">> THEN dir \o name ELSE dir \o <<"/">> \o name

RECURSIVE Walk(_, _, _)
\* path lookup: follow the components from the directory cur; every
\* component but the last must be an existing directory
Walk(fsys, cur, comps) ==
    IF comps = <<>> THEN [ok |-> TRUE, path |-> cur]
    ELSE IF cur \in DOMAIN fsys /\ fsys[cur].kind # "dir" THEN [ok |-> FALSE, path |-> cur]
    ELSE IF cur \notin DOMAIN fsys THEN [ok |-> FALSE, path |-> cur]
    ELSE LET comp == Head(comps)
         IN  IF comp = <<>> \/ comp = <<".">> THEN Walk(fsys, cur, Tail(comps))
             ELSE IF comp = <<".", ".">> THEN Walk(fsys, Parent(cur), Tail(comps))
             ELSE Walk(fsys, Child(cur, comp), Tail(comps))

\* the canonical path a path names, when its directories exist; a relative
\* path is looked up from the working directory of the process
Canon(fsys, path) ==
    Walk(fsys, <<"/">>, Split(IF IsAbs(path) THEN path ELSE PathJoin(ProcessCwd, path), "/"))

\* os.path.exists / Path.exists
Exists(fsys, path) == Canon(fsys, path).ok /\ Canon(fsys, path).path \in DOMAIN fsys

\* os.path.isdir / Path.is_dir
IsDir(fsys, path) == Exists(fsys, path) /\ fsys[Canon(fsys, path).path].kind = "dir"

\* Path.is_file
IsFile(fsys, path) == Exists(fsys, path) /\ fsys[Canon(fsys, path).path].kind = "file"


RECURSIVE MkWalk(_, _, _)
\* Path.mkdir(parents=True, exist_ok=True): create the missing directories
\* along the components; fails when a component exists and is not a directory
MkWalk(fsys, cur, comps) ==
    IF comps = <<>> THEN [ok |-> TRUE, fs |-> fsys]
    ELSE LET comp == Head(comps)
         IN  IF comp = <<>> \/ comp = <<".">> THEN MkWalk(fsys, cur, Tail(comps))
             ELSE IF comp = <<".", ".">> THEN MkWalk(fsys, Parent(cur), Tail(comps))
             ELSE LET child == Child(cur, comp)
                  IN  IF child \in DOMAIN fsys
                      THEN IF fsys[child].kind = "dir"
                           THEN MkWalk(fsys, child, Tail(comps))
                           ELSE [ok |-> FALSE, fs |-> fsys]
                      ELSE MkWalk((child :> DirNode) @@ fsys, child, Tail(comps))

MkdirParents(fsys, path) ==
    MkWalk(fsys, <<"/">>, Split(IF IsAbs(path) THEN path ELSE PathJoin(ProcessCwd, path), "/"))

RECURSIVE PureComps(_)
\* pathlib: empty and "." components are dropped, ".." is kept
PureComps(comps) ==
    IF comps = <<>> THEN <<>>
    ELSE IF Head(comps) = <<>> \/ Head(comps) = <<".">> THEN PureComps(Tail(comps))
    ELSE <<Head(comps)>> \o PureComps(Tail(comps))

\* str(Path(path))
PurePath(path) ==
    LET root == IF ~StartsWith(path, <<"/">>) THEN <<>>
                ELSE IF StartsWith(path, <<"/", "/">>) /\ ~StartsWith(path, <<"/", "/", "/">>)
                THEN <<"/", "/">> ELSE <<"/">>
        r == root \o Join(PureComps(Split(path, "/")), "/")
    IN  IF r = <<>> THEN <<".">> ELSE r

\* Path.parent of str(Path(path))
PureParent(path) ==
    LET comps == PureComps(Split(path, "/"))
        root == IF IsAbs(path) THEN <<"/">> ELSE <<>>
        r == root \o Join(SubSeq(comps, 1, Len(comps) - 1), "/")
    IN  IF r = <<>> THEN <<".">> ELSE r

\* Path.name
PathName(path) == LET comps == Split(path, "/") IN comps[Len(comps)]

\* Path.iterdir: the paths of the entries of a directory
IterDir(fsys, dir) ==
    { q \in DOMAIN fsys : q # <<"/">> /\ Parent(q) = dir /\ q # dir }

(***************************************************************************)
(* Ordering of strings (sorted) and formatting of numbers.                 *)
(***************************************************************************)
\* the characters of the model in code-point order
CodePointOrder ==
    <<"\n", " ", ".", "/">> \o UpperCase \o <<"\\", "_">> \o LowerCase \o <<"~">>

CodePoint(c) == CHOOSE i \in 1..Len(CodePointOrder) : CodePointOrder[i] = c

RECURSIVE StrLess(_, _)
\* a < b on strings
StrLess(a, b) ==
    IF b = <<>> THEN FALSE
    ELSE IF a = <<>> THEN TRUE
    ELSE IF Head(a) = Head(b) THEN StrLess(Tail(a), Tail(b))
    ELSE CodePoint(Head(a)) < CodePoint(Head(b))

RECURSIVE Sorted(_)
\* sorted(set of strings)
Sorted(S) ==
    IF S = {} THEN <<>>
    ELSE LET m == CHOOSE x \in S : \A y \in S \ {x} : StrLess(x, y)
         IN  <<m>> \o Sorted(S \ {m})

RECURSIVE Pow1024(_)
Pow1024(k) == IF k = 0 THEN 1 ELSE 1024 * Pow1024(k - 1)

\* f"{n/d:.1f}": one decimal, round half to even
Fmt1(n, d) ==
    LET q == (10 * n) \div d
        r == (10 * n) % d
        t == IF 2 * r > d \/ (2 * r = d /\ q % 2 = 1) THEN q + 1 ELSE q
    IN  <<ToString(t \div 10), ".", ToString(t % 10)>>

SizeUnits == <<"B", "KB", "MB", "GB">>

\* _format_size
format_size(size) ==
    IF \E k \in 1..Len(SizeUnits) : size < Pow1024(k)
    THEN LET k == CHOOSE k \in 1..Len(SizeUnits) :
                      size < Pow1024(k) /\ \A j \in 1..(k - 1) : size >= Pow1024(j)
         IN  Fmt1(size, Pow1024(k - 1)) \o <<" ", SizeUnits[k]>>
    ELSE Fmt1(size, Pow1024(Len(SizeUnits))) \o <<" ", "TB">>

(***************************************************************************)
(* tools.py: results, session, tool implementations                        *)
(***************************************************************************)
ToolResult(success, output, error) ==
    [success |-> success, output |-> output, error |-> error]

\* ShellSession(): cwd = home, env = a snapshot of the environment, no history
ShellSession == [cwd |-> Home, env |-> OsEnviron, history |-> <<>>]

\* what a tool leaves behind: its result, the session and the file system
Outcome(result, sess, fsys) == [result |-> result, session |-> sess, fs |-> fsys]

\* what a tool that ran a subprocess leaves behind: also what the process did
ProcessOutcome(result, sess, fsys, p) ==
    [result |-> result, session |-> sess, fs |-> fsys, process |-> p]

\* a call that ends with an exception instead of a ToolResult
Raise(type, text, sess, fsys) ==
    [result |-> [exception |-> type, error |-> text], session |-> sess, fs |-> fsys]

IsException(result) == "exception" \in DOMAIN result

\* an argument value that is a number where a string or a list is expected
\* (JSON lets the planner send one); written as a tagged value
IntValue == <<"<int>", "5">>

IsInt(v) == Len(v) = 2 /\ v[1] = "<int>"

\* the value of an optional parameter
Arg(args, key, default) == IF key \in DOMAIN args THEN args[key] ELSE default

\* default of run_command's timeout parameter
DefaultTimeout == 60

\* what subprocess.run can return for a command that ends in time:
\* returncode, captured stdout and stderr (the commands of the model do not
\* write to the file system)
CompletedProcesses ==
    { [timed_out |-> FALSE, returncode |-> 0, stdout |-> <<"out">>, stderr |-> <<>>],
      [timed_out |-> FALSE, returncode |-> 1, stdout |-> <<"partial">>,
       stderr |-> <<"err">>] }

\* a command that is killed at the timeout, after it wrote to its stdout:
\* subprocess.run raises TimeoutExpired, which carries the captured output
TimedOutProcess ==
    [timed_out |-> TRUE, returncode |-> -9, stdout |-> <<"partial">>, stderr |-> <<>>]

\* run_command as a shell that stays in the directory it ran the command in
run_command_chdir(args, sess, fsys) ==
    LET working_dir == Arg(args, "working_dir", <<>>)
        cwd == IF working_dir # <<>> /\ ~IsInt(working_dir)
               THEN expand_path(working_dir, sess.cwd) ELSE sess.cwd
    IN  { ProcessOutcome(
            ToolResult(TRUE, p.stdout, p.stderr),
            [sess EXCEPT !.cwd = cwd,
                         !.history = Append(@, [command |-> args["command"], cwd |-> cwd,
                                                exit_code |-> p.returncode])],
            fsys, p) : p \in { q \in CompletedProcesses : q.returncode = 0 } }

run_command(args, sess, fsys) ==
    LET command == args["command"]
        working_dir == Arg(args, "working_dir", <<>>)
        timeout == Arg(args, "timeout", DefaultTimeout)
        cwd == IF working_dir # <<>> THEN expand_path(working_dir, sess.cwd) ELSE sess.cwd
    IN  IF IsInt(working_dir)
        THEN \* _expand_path(working_dir, ...) is called before the try block
             { Raise("AttributeError", <<"'int' object has no attribute 'startswith'">>,
                     sess, fsys) }
        ELSE IF ~IsDir(fsys, cwd)
        THEN \* subprocess.run raises OSError: except Exception
             { Outcome(ToolResult(FALSE, <<>>, <<"No such directory: ">> \o cwd), sess, fsys) }
        ELSE { ProcessOutcome(
                 IF p.returncode # 0
                 THEN ToolResult(FALSE, p.stdout,
                                 <<"Command failed with exit code ", ToString(p.returncode), "\n">>
                                     \o p.stderr)
                 ELSE ToolResult(TRUE, p.stdout, p.stderr),
                 [sess EXCEPT !.history =
                     Append(@, [command |-> command, cwd |-> cwd, exit_code |-> p.returncode])],
                 fsys, p) : p \in CompletedProcesses }
             \cup
             \* subprocess.TimeoutExpired
             { ProcessOutcome(ToolResult(FALSE, <<>>,
                                  <<"Command timed out after ", ToString(timeout), " seconds">>),
                       sess, fsys, TimedOutProcess) }

TruncationNotice(max_lines) ==
    <<"\n... (truncated, showing first ", ToString(max_lines), " lines)">>

\* lines[:n]
Slice(lines, n) ==
    IF n >= 0 THEN SubSeq(lines, 1, IF n < Len(lines) THEN n ELSE Len(lines))
    ELSE SubSeq(lines, 1, Len(lines) + n)

read_file(args, sess, fsys) ==
    LET path == PurePath(expand_path(args["path"], sess.cwd))
        max_lines == Arg(args, "max_lines", 0)
    IN  IF ~Exists(fsys, path)
        THEN { Outcome(ToolResult(FALSE, <<>>, <<"File not found: ">> \o path), sess, fsys) }
        ELSE IF ~IsFile(fsys, path)
        THEN { Outcome(ToolResult(FALSE, <<>>, <<"Not a file: ">> \o path), sess, fsys) }
        ELSE LET content == fsys[Canon(fsys, path).path].content
                 lines == Slice(Split(content, "\n"), max_lines)
                 shown == Join(lines, "\n")
             IN  { Outcome(ToolResult(TRUE,
                       IF max_lines # 0
                       THEN IF Len(lines) = max_lines
                            THEN shown \o TruncationNotice(max_lines) ELSE shown
                       ELSE content,
                       <<>>), sess, fsys) }

\* write_file that opens the file with mode "w" whatever append says
write_file_truncating(args, sess, fsys) ==
    LET path == PurePath(expand_path(args["path"], sess.cwd))
        content == args["content"]
        append == Arg(args, "append", FALSE)
        made == MkdirParents(fsys, PureParent(path))
        target == Canon(made.fs, path)
        action == IF append THEN "Appended to" ELSE "Wrote"
    IN  IF ~made.ok
        THEN { Outcome(ToolResult(FALSE, <<>>, <<"File exists: ">> \o PureParent(path)),
                       sess, made.fs) }
        ELSE IF ~target.ok \/ IsDir(made.fs, path)
        THEN { Outcome(ToolResult(FALSE, <<>>, <<"Is a directory: ">> \o path),
                       sess, made.fs) }
        ELSE { Outcome(ToolResult(TRUE,
                           <<action, " ">> \o path \o <<" (", ToString(Len(content)), " bytes)">>,
                           <<>>),
                       sess,
                       (target.path :>
                            FileNode(IF FALSE /\ target.path \in DOMAIN made.fs
                                     THEN made.fs[target.path].content \o content
                                     ELSE content)) @@ made.fs) }

write_file(args, sess, fsys) ==
    LET path == PurePath(expand_path(args["path"], sess.cwd))
        content == args["content"]
        append == Arg(args, "append", FALSE)
        made == MkdirParents(fsys, PureParent(path))
        target == Canon(made.fs, path)
        action == IF append THEN "Appended to" ELSE "Wrote"
    IN  IF ~made.ok
        THEN { Outcome(ToolResult(FALSE, <<>>, <<"File exists: ">> \o PureParent(path)),
                       sess, made.fs) }
        ELSE IF ~target.ok \/ IsDir(made.fs, path)
        THEN { Outcome(ToolResult(FALSE, <<>>, <<"Is a directory: ">> \o path),
                       sess, made.fs) }
        ELSE { Outcome(ToolResult(TRUE,
                           <<action, " ">> \o path \o <<" (", ToString(Len(content)), " bytes)">>,
                           <<>>),
                       sess,
                       (target.path :>
                            FileNode(IF append /\ target.path \in DOMAIN made.fs
                                     THEN made.fs[target.path].content \o content
                                     ELSE content)) @@ made.fs) }

\* one line of the listing
ListEntry(fsys, entry) ==
    LET name == PathName(entry)
    IN  IF fsys[entry].kind = "dir" THEN <<"[dir] ">> \o name \o <<"/">>
        ELSE <<"[file] ">> \o name \o <<" (">> \o format_size(Len(fsys[entry].content)) \o <<")">>

RECURSIVE ListEntries(_, _, _)
ListEntries(fsys, sorted, show_hidden) ==
    IF sorted = <<>> THEN <<>>
    ELSE IF ~show_hidden /\ StartsWith(PathName(Head(sorted)), <<".">>)
    THEN ListEntries(fsys, Tail(sorted), show_hidden)
    ELSE <<ListEntry(fsys, Head(sorted))>> \o ListEntries(fsys, Tail(sorted), show_hidden)

RECURSIVE JoinLines(_)
\* "\n".join(entries), for entries that are strings of fragments
JoinLines(entries) ==
    IF entries = <<>> THEN <<>>
    ELSE IF Len(entries) = 1 THEN entries[1]
    ELSE entries[1] \o <<"\n">> \o JoinLines(Tail(entries))

\* list_directory that never skips an entry
list_directory_all(args, sess, fsys) ==
    LET path == PurePath(expand_path(Arg(args, "path", <<>>), sess.cwd))
        show_hidden == TRUE
    IN  IF ~Exists(fsys, path)
        THEN { Outcome(ToolResult(FALSE, <<>>, <<"Directory not found: ">> \o path), sess, fsys) }
        ELSE IF ~IsDir(fsys, path)
        THEN { Outcome(ToolResult(FALSE, <<>>, <<"Not a directory: ">> \o path), sess, fsys) }
        ELSE LET entries == ListEntries(fsys, Sorted(IterDir(fsys, Canon(fsys, path).path)),
                                        show_hidden)
             IN  { Outcome(ToolResult(TRUE,
                               <<"Directory: ">> \o path \o <<"\n\n">> \o JoinLines(entries),
                               <<>>), sess, fsys) }

list_directory(args, sess, fsys) ==
    LET path == PurePath(expand_path(Arg(args, "path", <<>>), sess.cwd))
        show_hidden == Arg(args, "show_hidden", FALSE)
    IN  IF ~Exists(fsys, path)
        THEN { Outcome(ToolResult(FALSE, <<>>, <<"Directory not found: ">> \o path), sess, fsys) }
        ELSE IF ~IsDir(fsys, path)
        THEN { Outcome(ToolResult(FALSE, <<>>, <<"Not a directory: ">> \o path), sess, fsys) }
        ELSE LET entries == ListEntries(fsys, Sorted(IterDir(fsys, Canon(fsys, path).path)),
                                        show_hidden)
             IN  { Outcome(ToolResult(TRUE,
                               <<"Directory: ">> \o path \o <<"\n\n">> \o JoinLines(entries),
                               <<>>), sess, fsys) }

get_current_directory(args, sess, fsys) ==
    { Outcome(ToolResult(TRUE, sess.cwd, <<>>), sess, fsys) }

\* change_directory without the tests of lines 446-454
change_directory_unchecked(args, sess, fsys) ==
    LET path == AbsPath(expand_path(args["path"], sess.cwd))
    IN  { Outcome(ToolResult(TRUE, <<"Changed directory to: ">> \o path, <<>>),
                  [sess EXCEPT !.cwd = path], fsys) }

change_directory(args, sess, fsys) ==
    LET path == AbsPath(expand_path(args["path"], sess.cwd))
    IN  IF ~Exists(fsys, path)
        THEN { Outcome(ToolResult(FALSE, <<>>, <<"Directory not found: ">> \o path), sess, fsys) }
        ELSE IF ~IsDir(fsys, path)
        THEN { Outcome(ToolResult(FALSE, <<>>, <<"Not a directory: ">> \o path), sess, fsys) }
        ELSE { Outcome(ToolResult(TRUE, <<"Changed directory to: ">> \o path, <<>>),
                       [sess EXCEPT !.cwd = path], fsys) }

RECURSIVE FileLines(_)
\* "\n".join(f"  * {f}" for f in files_modified)
FileLines(files) ==
    IF files = <<>> THEN <<>>
    ELSE IF Len(files) = 1 THEN <<"  * ">> \o files[1]
    ELSE <<"  * ">> \o files[1] \o <<"\n">> \o FileLines(Tail(files))

\* task_complete that keeps the summary as the last command of the session
task_complete_recorded(args, sess, fsys) ==
    { Outcome(ToolResult(TRUE, <<"[ok] Task completed!\n\n">> \o args["summary"], <<>>),
              [sess EXCEPT !.history =
                  Append(@, [command |-> args["summary"], cwd |-> sess.cwd,
                             exit_code |-> 0])],
              fsys) }

\* the check mark before "Task completed!" is written "[ok] "
task_complete(args, sess, fsys) ==
    LET summary == args["summary"]
        files_modified == Arg(args, "files_modified", <<>>)
        output == <<"[ok] Task completed!\n\n">> \o summary
    IN  IF IsInt(files_modified)
        THEN \* the generator expression iterates over a number
             { Raise("TypeError", <<"'int' object is not iterable">>, sess, fsys) }
        ELSE { Outcome(ToolResult(TRUE,
                      IF files_modified # <<>>
                      THEN output \o <<"\n\nFiles modified:\n">> \o FileLines(files_modified)
                      ELSE output,
                      <<>>), sess, fsys) }

(***************************************************************************)
(* tools.py: the dispatcher                                                *)
(***************************************************************************)
\* the parameters of each implementation: those without and with a default
Signature ==
    [ run_command |-> [required |-> {"command"}, optional |-> {"working_dir", "timeout"}],
      read_file |-> [required |-> {"path"}, optional |-> {"max_lines"}],
      write_file |-> [required |-> {"path", "content"}, optional |-> {"append"}],
      list_directory |-> [required |-> {}, optional |-> {"path", "show_hidden"}],
      get_current_directory |-> [required |-> {}, optional |-> {}],
      change_directory |-> [required |-> {"path"}, optional |-> {}],
      task_complete |-> [required |-> {"summary"}, optional |-> {"files_modified"}] ]

\* the names of the dispatch table
TOOL_FUNCTIONS == DOMAIN Signature

\* the schema of a parameter list: the type of each property, the required ones
Parameters(properties, required) == [properties |-> properties, required |-> required]

NoProperties == [k \in {} |-> ""]

\* an entry of the catalog
ToolDefinition(name, description, parameters) ==
    [name |-> name, description |-> description, parameters |-> parameters]

\* TOOL_DEFINITIONS: the catalog sent to the planner, in the order of the source
TOOL_DEFINITIONS ==
    << ToolDefinition("run_command", "Execute a shell command and return the output. Use this to run any command-line operation.",
           Parameters([command |-> "string", working_dir |-> "string",
                       timeout |-> "integer"], <<"command">>)),
       ToolDefinition("read_file", "Read the contents of a file.",
           Parameters([path |-> "string", max_lines |-> "integer"], <<"path">>)),
       ToolDefinition("write_file", "Write content to a file. Creates the file if it doesn't exist.",
           Parameters([path |-> "string", content |-> "string", append |-> "boolean"],
                      <<"path", "content">>)),
       ToolDefinition("list_directory", "List files and directories in a path.",
           Parameters([path |-> "string", show_hidden |-> "boolean"], <<>>)),
       ToolDefinition("get_current_directory", "Get the current working directory.",
           Parameters(NoProperties, <<>>)),
       ToolDefinition("change_directory", "Change the current working directory.",
           Parameters([path |-> "string"], <<"path">>)),
       ToolDefinition("task_complete",
           "Call this when you have completed the user's task. Provide a summary of what was done.",
           Parameters([summary |-> "string", files_modified |-> "array"],
                      <<"summary">>)) >>

\* TOOL_FUNCTIONS with get_current_directory bound to no function
DispatchTableShort ==
    [name \in TOOL_FUNCTIONS \ {"get_current_directory"} |-> name]

\* the dict TOOL_FUNCTIONS: each name with the function it is bound to
DispatchTable == [name \in TOOL_FUNCTIONS |-> name]

VARIABLES
    catalog,        \* the module-level list tools.TOOL_DEFINITIONS
    dispatch_table  \* the module-level dict tools.TOOL_FUNCTIONS

\* the two module-level tables of tools.py
tables == <<catalog, dispatch_table>>

VARIABLES
    mcp_calls,      \* the number of calls of handle_mcp_tool_call so far
    mcp_tools,      \* what the last call of get_mcp_tool_schemas returned
    mcp_response    \* what the last call of handle_mcp_tool_call returned

\* the external client's view of the tools
mcp == <<mcp_calls, mcp_tools, mcp_response>>

\* no call of handle_mcp_tool_call was made yet
NoResponse == [content |-> <<>>, isError |-> FALSE]

VARIABLES
    raw_path,       \* the path argument of a call of _expand_path
    resolver_cwd,   \* the cwd argument of that call
    resolved        \* what the call returned, once it has returned

\* one call of _expand_path: its arguments and its value
resolver == <<raw_path, resolver_cwd, resolved>>

\* the call of _expand_path has not returned
Unresolved == [done |-> FALSE, path |-> <<>>]

VARIABLES
    agent_running,  \* st.session_state.agent_running
    agent_steps,    \* st.session_state.agent_steps
    render_pc       \* the position of the script in render_agent_mode

\* the agent mode page: its session state and the position of its script
ui == <<agent_running, agent_steps, render_pc>>

\* TOOL_FUNCTIONS[name](**arguments), once the arguments bind
CallTool(name, args, sess, fsys) ==
    CASE name = "run_command" -> run_command(args, sess, fsys)
      [] name = "read_file" -> read_file(args, sess, fsys)
      [] name = "write_file" -> write_file(args, sess, fsys)
      [] name = "list_directory" -> list_directory(args, sess, fsys)
      [] name = "get_current_directory" -> get_current_directory(args, sess, fsys)
      [] name = "change_directory" -> change_directory(args, sess, fsys)
      [] name = "task_complete" -> task_complete(args, sess, fsys)

\* the except clauses of execute_tool: an exception that leaves the tool
\* becomes a failed ToolResult
Caught(name, o) ==
    IF ~IsException(o.result) THEN o
    ELSE [o EXCEPT !.result =
             ToolResult(FALSE, <<>>,
                        <<(IF @.exception = "TypeError" THEN "Invalid arguments for "
                           ELSE "Error executing "), name, ": ">> \o @.error)]

\* what binding the arguments to the parameters of the tool yields when
\* they do not fit (TypeError), else the outcomes of the call
Bound(name, args, sess, fsys, called) ==
    LET sig == Signature[name]
        unexpected == DOMAIN args \ (sig.required \cup sig.optional)
        missing == sig.required \ DOMAIN args
    IN  IF unexpected # {}
        THEN { Outcome(ToolResult(FALSE, <<>>,
                   <<"Invalid arguments for ", name, ": unexpected keyword argument ",
                     CHOOSE k \in unexpected : TRUE>>), sess, fsys) }
        ELSE IF missing # {}
        THEN { Outcome(ToolResult(FALSE, <<>>,
                   <<"Invalid arguments for ", name, ": missing required argument ",
                     CHOOSE k \in missing : TRUE>>), sess, fsys) }
        ELSE called

\* execute_tool handing an unknown name to the shell
execute_tool_shell_fallback(name, args, sess, fsys) ==
    IF name \notin TOOL_FUNCTIONS
    THEN { Caught(name, o) : o \in run_command([command |-> <<name>>], sess, fsys) }
    ELSE Bound(name, args, sess, fsys,
               { Caught(name, o) : o \in CallTool(name, args, sess, fsys) })

\* execute_tool without its `except Exception` clauses
execute_tool_uncaught(name, args, sess, fsys) ==
    IF name \notin TOOL_FUNCTIONS
    THEN { Outcome(ToolResult(FALSE, <<>>, <<"Unknown tool: ", name>>), sess, fsys) }
    ELSE Bound(name, args, sess, fsys, CallTool(name, args, sess, fsys))

\* execute_tool(name, arguments): the possible outcomes
execute_tool(name, args, sess, fsys) ==
    IF name \notin DOMAIN dispatch_table
    THEN { Outcome(ToolResult(FALSE, <<>>, <<"Unknown tool: ", name>>), sess, fsys) }
    ELSE Bound(name, args, sess, fsys,
               { Caught(name, o) : o \in CallTool(dispatch_table[name], args, sess, fsys) })

\* reset_session that clears the history and leaves the session where the
\* process is: cwd is the relative path "."
reset_session_in_place == [cwd |-> <<".">>, env |-> OsEnviron, history |-> <<>>]

\* reset_session()
reset_session == ShellSession

(***************************************************************************)
(* agent_loop.py: the inputs of a run and the planner                      *)
(***************************************************************************)
\* the task text of the run
Task == <<"t", "a", "s", "k">>

\* the values of the context argument: none, or a free text
Contexts == { <<>>, <<"c", "t", "x">> }

\* get_system_prompt()
SystemPrompt == <<"SYSTEM_PROMPT">>

\* texts the planner answers with: nothing, a plain remark, and a remark that
\* holds a closing phrase inside a word and in capitals
PlannerTexts == { <<>>, <<"o", "k">>, <<"U", "n", "D", "O", "N", "E", "!">> }

\* texts the planner puts before its invocations: nothing, or a remark (one
\* that would close the run had it come without invocations)
ThinkingTexts == { <<>>, <<"D", "o", "n", "e">> }

\* the correlation id the planner attaches to invocation i of its n-th
\* response: ids are unique within a run
CallId(n, i) == <<"call", n, i>>

\* arguments bound to no parameter
EmptyArgs == [k \in {} |-> <<>>]

\* json.loads on the argument payloads of the model: the parsed object, or
\* JSONDecodeError for a payload that is not JSON
JsonLoads(payload) ==
    CASE payload = "{}" -> [ok |-> TRUE, value |-> EmptyArgs]
      [] payload = "{\"summary\": \"s\"}" -> [ok |-> TRUE, value |-> [summary |-> <<"s">>]]
      [] payload = "{\"path\": \"d\"}" -> [ok |-> TRUE, value |-> [path |-> <<"d">>]]
      [] payload = "{\"path\": \"nowhere\"}" ->
             [ok |-> TRUE, value |-> [path |-> <<"n", "o", "w", "h", "e", "r", "e">>]]
      [] payload = "{\"command\": \"ls\"}" -> [ok |-> TRUE, value |-> [command |-> <<"l", "s">>]]
      [] OTHER -> [ok |-> FALSE, value |-> EmptyArgs]

\* the tool name and argument payload of the invocations the planner proposes
PlannerCalls ==
    { <<"task_complete", "{\"summary\": \"s\"}">>,
      <<"task_complete", "{\"summary\": ">>,
      <<"change_directory", "{\"path\": \"d\"}">>,
      <<"change_directory", "{\"path\": ">>,
      <<"no_such_tool", "{}">> }

\* the invocations of PlannerCalls that touch neither session nor file system
SignalCalls == { c \in PlannerCalls : c[1] \in {"task_complete", "no_such_tool"} }

\* the invocations of the n-th planner response that proposes the calls c
Invocations(n, c) ==
    [i \in 1..Len(c) |-> [id |-> CallId(n, i), name |-> c[i][1], arguments |-> c[i][2]]]

\* sequences of 1..n elements of S
SeqsUpTo(S, n) == UNION { [1..k -> S] : k \in 1..n }

(***************************************************************************)
(* agent_loop.py: AgentStep and conversation messages                      *)
(***************************************************************************)
\* AgentStep(step_number, type, content)
AgentStep(n, type, content) == [step_number |-> n, type |-> type, content |-> content]

\* AgentStep(..., type="tool_call", tool_name, tool_args)
CallStep(n, tool_name, tool_args) ==
    [step_number |-> n, type |-> "tool_call", content |-> <<"Calling ", tool_name>>,
     tool_name |-> tool_name, tool_args |-> tool_args]

\* AgentStep(..., type="tool_result", tool_name, tool_result)
ResultStep(n, content, tool_name, tool_result) ==
    [step_number |-> n, type |-> "tool_result", content |-> content,
     tool_name |-> tool_name, tool_result |-> tool_result]

\* InitialMessages that always appends the separator and the context
InitialMessagesAlwaysContext(ctx) ==
    << [role |-> "system", content |-> SystemPrompt],
       [role |-> "user", content |-> Task \o <<"\n", "\n">> \o ctx] >>

\* the seed conversation
InitialMessages(ctx) ==
    << [role |-> "system", content |-> SystemPrompt],
       [role |-> "user",
        content |-> IF ctx # <<>> THEN Task \o <<"\n", "\n">> \o ctx ELSE Task] >>

\* AssistantToolMessage recording only the first invocation of the turn
AssistantToolMessageFirstOnly(msg) ==
    [role |-> "assistant", content |-> msg.content,
     tool_calls |-> << [id |-> msg.tool_calls[1].id, type |-> "function",
                        function |-> [name |-> msg.tool_calls[1].name,
                                      arguments |-> msg.tool_calls[1].arguments]] >>]

\* the assistant record of a turn with tool invocations
AssistantToolMessage(msg) ==
    [role |-> "assistant", content |-> msg.content,
     tool_calls |-> [i \in 1..Len(msg.tool_calls) |->
                        [id |-> msg.tool_calls[i].id, type |-> "function",
                         function |-> [name |-> msg.tool_calls[i].name,
                                       arguments |-> msg.tool_calls[i].arguments]]]]

\* the tool record answering an invocation
ToolMessage(id, content) == [role |-> "tool", tool_call_id |-> id, content |-> content]

\* the assistant record of a text-only turn
AssistantTextMessage(content) == [role |-> "assistant", content |-> content]

\* result.output, with the error text appended when there is one
ResultContent(result) ==
    IF result.error # <<>> THEN result.output \o <<"\n\nError: ">> \o result.error
    ELSE result.output

\* the phrases taken to close a task
CompletionPhrases ==
    { <<"c", "o", "m", "p", "l", "e", "t", "e", "d">>,
      <<"d", "o", "n", "e">>,
      <<"f", "i", "n", "i", "s", "h", "e", "d">>,
      <<"t", "a", "s", "k", " ", "c", "o", "m", "p", "l", "e", "t", "e">>,
      <<"l", "e", "t", " ", "m", "e", " ", "k", "n", "o", "w">>,
      <<"a", "n", "y", "t", "h", "i", "n", "g", " ", "e", "l", "s", "e">>,
      <<"h", "e", "l", "p", " ", "y", "o", "u", " ", "w", "i", "t", "h">> }

\* is_complete without lower-casing the text
is_complete_cased(content) == \E phrase \in CompletionPhrases : Contains(content, phrase)

\* any(phrase in content.lower() for phrase in [...])
is_complete(content) == \E phrase \in CompletionPhrases : Contains(Lower(content), phrase)

\* the cap on consecutive text-only responses
max_text_responses == 2

(***************************************************************************)
(* State.                                                                  *)
(***************************************************************************)
VARIABLES
    max_steps,      \* argument of run_agent_loop
    context,        \* argument of run_agent_loop
    on_step,        \* TRUE when the caller passed a callback
    planner_menu,   \* the invocations the planner of this run chooses from
    pc,             \* the position of the generator in run_agent_loop
    suspended,      \* TRUE while the generator waits for the caller's next()
    step_number,
    consecutive_text_responses,
    messages,       \* the conversation
    message,        \* the planner response being processed
    tc_index,       \* position of the for loop in message.tool_calls
    tool_args,
    result,
    exc,            \* the exception caught by `except Exception as e`
    pending,        \* the step being handed to on_step / yielded
    after,          \* where the generator resumes after the yield
    in_try,         \* TRUE when the emission is inside the try block
    session,        \* tools._session
    fs,             \* the file system
    steps,          \* the steps yielded to the caller, in order
    cb_steps,       \* the steps passed to on_step, in order
    cb_raised,      \* TRUE once a call of on_step raised
    responses,      \* what each planner call of the run did, in order
    at_call,        \* what the last planner call found: conversation, session, ...
    dispatched,     \* the invocations passed to execute_tool, in order
    run_phase,      \* of each run of the process: "new", "live" or "over"
    own_session,    \* the session each run was left with by its own last action
    overlapped,     \* TRUE once a run started while another one was live
    calls,          \* the number of tool calls each run has made
    call,           \* the last call of execute_tool: run, name, arguments
    process         \* the subprocess of the last call, when it ran one

vars ==
    <<max_steps, context, on_step, planner_menu, pc, suspended, step_number,
      consecutive_text_responses, messages, message, tc_index, tool_args, result,
      exc, pending, after, in_try, session, fs, steps, cb_steps, cb_raised,
      responses, at_call, dispatched, run_phase, own_session, overlapped, calls,
      call, process, catalog, dispatch_table, mcp_calls, mcp_tools, mcp_response,
      raw_path, resolver_cwd, resolved, agent_running, agent_steps, render_pc>>

\* the runs of the process and the calls they make of execute_tool
runs == <<run_phase, own_session, overlapped, calls, call, process>>

inputs == <<max_steps, context, on_step, planner_menu>>

locals == <<message, tc_index, tool_args, result, exc>>

world == <<session, fs>>

history == <<responses, at_call, dispatched>>

\* number of planner calls made so far
planner_calls == Len(responses)

\* TRUE once a planner call raised
planner_raised == \E k \in 1..Len(responses) : responses[k].raised

\* a session left behind by an earlier task of the process
UsedSession ==
    [cwd |-> <<"/", "h", "/", "d">>, env |-> OsEnviron,
     history |-> << [command |-> <<"l", "s">>, cwd |-> Home, exit_code |-> 0] >>]

NoMessage == [content |-> <<>>, tool_calls |-> <<>>]

NoStep == AgentStep(0, "none", <<>>)

NoCall ==
    [messages |-> <<>>, session |-> ShellSession, fs |-> InitFs, dispatched |-> 0,
     steps |-> 0]

\* the runs of the process
Runs == {"A", "B"}

NoToolCall == [run |-> "", name |-> "", args |-> EmptyArgs]

NoProcess == [timed_out |-> FALSE, returncode |-> 0, stdout |-> <<>>, stderr |-> <<>>]

\* run_agent_loop(client, model, task, context, max_steps, on_step) was called
\* with a client whose planner chooses from menu: the generator exists and
\* nothing of its body has run
ProgramInit(menu) ==
    /\ planner_menu = menu
    /\ max_steps \in 0..MaxStepsBound
    /\ context \in Contexts
    /\ on_step \in BOOLEAN
    /\ pc = "start"
    /\ suspended = TRUE
    /\ step_number = 0
    /\ consecutive_text_responses = 0
    /\ messages = <<>>
    /\ message = NoMessage
    /\ tc_index = 0
    /\ tool_args = EmptyArgs
    /\ result = ToolResult(FALSE, <<>>, <<>>)
    /\ exc = <<>>
    /\ pending = NoStep
    /\ after = "start"
    /\ in_try = FALSE
    /\ session \in {ShellSession, UsedSession}
    /\ fs = InitFs
    /\ steps = <<>>
    /\ cb_steps = <<>>
    /\ cb_raised = FALSE
    /\ responses = <<>>
    /\ at_call = NoCall
    /\ dispatched = <<>>
    /\ run_phase = [r \in Runs |-> "new"]
    /\ own_session = [r \in Runs |-> ShellSession]
    /\ overlapped = FALSE
    /\ calls = [r \in Runs |-> 0]
    /\ call = NoToolCall
    /\ process = NoProcess
    /\ catalog = TOOL_DEFINITIONS
    /\ dispatch_table = DispatchTable
    /\ mcp_calls = 0
    /\ mcp_tools = <<>>
    /\ mcp_response = NoResponse
    /\ agent_running = FALSE
    /\ agent_steps = <<>>
    /\ render_pc = "idle"

\* the same, with no call of _expand_path of its own under way
InitWith(menu) ==
    /\ ProgramInit(menu)
    /\ raw_path = <<>>
    /\ resolver_cwd = Home
    /\ resolved = Unresolved

Init == InitWith(PlannerCalls)

(***************************************************************************)
(* Handing a step over: `if on_step: on_step(step)` then `yield step`.     *)
(***************************************************************************)
\* the code reached an emission of step; the generator resumes at next
Emit(step, next, guarded) ==
    /\ pending' = step
    /\ after' = next
    /\ in_try' = guarded
    /\ pc' = IF on_step THEN "on_step" ELSE "yield"

\* on_step(step) returns
OnStepReturns ==
    /\ ~suspended /\ pc = "on_step"
    /\ cb_steps' = Append(cb_steps, pending)
    /\ pc' = "yield"
    /\ UNCHANGED <<inputs, resolver, ui, tables, mcp, runs, suspended, step_number, consecutive_text_responses, messages,
                   locals, pending, after, in_try, world, steps, cb_raised, history>>

\* on_step(step) raises: inside the try block the handler of line 271 takes
\* over, elsewhere the exception leaves the generator
OnStepRaises ==
    /\ ~suspended /\ pc = "on_step"
    /\ cb_steps' = Append(cb_steps, pending)
    /\ cb_raised' = TRUE
    /\ IF in_try
       THEN pc' = "except" /\ exc' = <<"on_step failed">>
       ELSE pc' = "raised" /\ exc' = exc
    /\ UNCHANGED <<inputs, resolver, ui, tables, mcp, runs, suspended, step_number, consecutive_text_responses, messages,
                   message, tc_index, tool_args, result, pending, after, in_try, world,
                   steps, history>>

\* Yield of a producer that collects its steps and runs on: the step is
\* stored for the caller and the body continues
YieldEager ==
    /\ ~suspended /\ pc = "yield"
    /\ steps' = Append(steps, pending)
    /\ suspended' = FALSE
    /\ pc' = after
    /\ UNCHANGED <<inputs, resolver, ui, tables, mcp, runs, step_number, consecutive_text_responses, messages, locals,
                   pending, after, in_try, world, cb_steps, cb_raised, history>>

\* yield step: the step reaches the caller and the generator is suspended
Yield ==
    /\ ~suspended /\ pc = "yield"
    /\ steps' = Append(steps, pending)
    /\ suspended' = TRUE
    /\ pc' = after
    /\ UNCHANGED <<inputs, resolver, ui, tables, mcp, runs, step_number, consecutive_text_responses, messages, locals,
                   pending, after, in_try, world, cb_steps, cb_raised, history>>

\* the caller asks for the next step (next() on the generator)
Consume ==
    /\ suspended /\ pc \notin {"done", "raised"}
    /\ suspended' = FALSE
    /\ UNCHANGED <<inputs, resolver, ui, tables, mcp, runs, pc, step_number, consecutive_text_responses, messages, locals,
                   pending, after, in_try, world, steps, cb_steps, cb_raised, history>>

(***************************************************************************)
(* run_agent_loop                                                          *)
(***************************************************************************)
\* Start without line 104: the run works in the session it finds
StartNoReset ==
    /\ ~suspended /\ pc = "start"
    /\ session' = session
    /\ messages' = InitialMessages(context)
    /\ step_number' = 0
    /\ consecutive_text_responses' = 0
    /\ pc' = "while"
    /\ UNCHANGED <<inputs, resolver, ui, tables, mcp, runs, suspended, locals, pending, after, in_try, fs, steps,
                   cb_steps, cb_raised, history>>

\* lines 103-114: reset the session, seed the conversation
Start ==
    /\ ~suspended /\ pc = "start"
    /\ session' = reset_session
    /\ messages' = InitialMessages(context)
    /\ step_number' = 0
    /\ consecutive_text_responses' = 0
    /\ pc' = "while"
    /\ UNCHANGED <<inputs, resolver, ui, tables, mcp, runs, suspended, locals, pending, after, in_try, fs, steps,
                   cb_steps, cb_raised, history>>

\* WhileTest with the loop condition off by one (<=)
WhileTestOffByOne ==
    /\ ~suspended /\ pc = "while"
    /\ IF step_number <= max_steps
       THEN step_number' = step_number + 1 /\ pc' = "call"
       ELSE step_number' = step_number /\ pc' = "max_steps"
    /\ UNCHANGED <<inputs, resolver, ui, tables, mcp, runs, suspended, consecutive_text_responses, messages, locals,
                   pending, after, in_try, world, steps, cb_steps, cb_raised, history>>

\* lines 116-117: while step_number < max_steps: step_number += 1
WhileTest ==
    /\ ~suspended /\ pc = "while"
    /\ IF step_number < max_steps
       THEN step_number' = step_number + 1 /\ pc' = "call"
       ELSE step_number' = step_number /\ pc' = "max_steps"
    /\ UNCHANGED <<inputs, resolver, ui, tables, mcp, runs, suspended, consecutive_text_responses, messages, locals,
                   pending, after, in_try, world, steps, cb_steps, cb_raised, history>>

\* the number of invocations the planner has proposed so far in the run
Proposed ==
    Cardinality({ ki \in (1..Len(responses)) \X (1..MaxCallsPerTurn) :
                      ki[2] <= Len(responses[ki[1]].tool_calls) })

\* what the k-th planner call can return: a text, or up to MaxCallsPerTurn
\* invocations of the menu (while the run's total stays within MaxInvocations),
\* with or without a text before them
PlannerResponses(k) ==
    LET left == MaxInvocations - Proposed
        n == IF left < MaxCallsPerTurn THEN left ELSE MaxCallsPerTurn
    IN  { [content |-> t, tool_calls |-> <<>>] : t \in PlannerTexts }
        \cup { [content |-> t, tool_calls |-> Invocations(k, c)] :
                   t \in ThinkingTexts, c \in SeqsUpTo(planner_menu, n) }

\* the record of a planner call
CallRecord ==
    [messages |-> messages, session |-> session, fs |-> fs,
     dispatched |-> Len(dispatched), steps |-> Len(steps)]

\* the record of a planner call that returned r, and of one that raised
Returned(r) == [raised |-> FALSE, content |-> r.content, tool_calls |-> r.tool_calls]

Raised == [raised |-> TRUE, content |-> <<>>, tool_calls |-> <<>>]

\* lines 121-128: the planner call returns a message
PlannerReturns ==
    /\ ~suspended /\ pc = "call"
    /\ \E r \in PlannerResponses(planner_calls + 1) :
           /\ message' = r
           /\ responses' = Append(responses, Returned(r))
    /\ at_call' = CallRecord
    /\ pc' = "branch"
    /\ UNCHANGED <<inputs, resolver, ui, tables, mcp, runs, suspended, step_number, consecutive_text_responses, messages,
                   tc_index, tool_args, result, exc, pending, after, in_try, world,
                   steps, cb_steps, cb_raised, dispatched>>

\* PlannerRaises with a retry: the failed call is repeated by the loop
PlannerRaisesRetry ==
    /\ ~suspended /\ pc = "call"
    /\ responses' = Append(responses, Raised)
    /\ at_call' = CallRecord
    /\ exc' = <<"planner failed">>
    /\ pc' = "while"
    /\ UNCHANGED <<inputs, resolver, ui, tables, mcp, runs, suspended, step_number, consecutive_text_responses, messages,
                   message, tc_index, tool_args, result, pending, after, in_try, world,
                   steps, cb_steps, cb_raised, dispatched>>

\* lines 121-128: the planner call raises
PlannerRaises ==
    /\ ~suspended /\ pc = "call"
    /\ responses' = Append(responses, Raised)
    /\ at_call' = CallRecord
    /\ exc' = <<"planner failed">>
    /\ pc' = "except"
    /\ UNCHANGED <<inputs, resolver, ui, tables, mcp, runs, suspended, step_number, consecutive_text_responses, messages,
                   message, tc_index, tool_args, result, pending, after, in_try, world,
                   steps, cb_steps, cb_raised, dispatched>>

\* ToolTurn emitting the thinking step also for an empty text
ToolTurnAlwaysThinks ==
    /\ ~suspended /\ pc = "branch"
    /\ message.tool_calls # <<>>
    /\ consecutive_text_responses' = 0
    /\ messages' = Append(messages, AssistantToolMessage(message))
    /\ tc_index' = 1
    /\ Emit(AgentStep(step_number, "thinking", message.content), "for", TRUE)
    /\ UNCHANGED <<inputs, resolver, ui, tables, mcp, runs, suspended, step_number, message, tool_args, result, exc,
                   world, steps, cb_steps, cb_raised, history>>

\* ToolTurn without the reset of the text-only counter (line 132)
ToolTurnNoReset ==
    /\ ~suspended /\ pc = "branch"
    /\ message.tool_calls # <<>>
    /\ consecutive_text_responses' = consecutive_text_responses
    /\ messages' = Append(messages, AssistantToolMessage(message))
    /\ tc_index' = 1
    /\ IF message.content # <<>>
       THEN Emit(AgentStep(step_number, "thinking", message.content), "for", TRUE)
       ELSE pc' = "for" /\ UNCHANGED <<pending, after, in_try>>
    /\ UNCHANGED <<inputs, resolver, ui, tables, mcp, runs, suspended, step_number, message, tool_args, result, exc,
                   world, steps, cb_steps, cb_raised, history>>

\* lines 131-159: the response has tool invocations
ToolTurn ==
    /\ ~suspended /\ pc = "branch"
    /\ message.tool_calls # <<>>
    /\ consecutive_text_responses' = 0
    /\ messages' = Append(messages, AssistantToolMessage(message))
    /\ tc_index' = 1
    /\ IF message.content # <<>>
       THEN Emit(AgentStep(step_number, "thinking", message.content), "for", TRUE)
       ELSE pc' = "for" /\ UNCHANGED <<pending, after, in_try>>
    /\ UNCHANGED <<inputs, resolver, ui, tables, mcp, runs, suspended, step_number, message, tool_args, result, exc,
                   world, steps, cb_steps, cb_raised, history>>

\* ForEach without the handler of JSONDecodeError: a malformed payload
\* reaches the handler of line 271
ForEachStrict ==
    /\ ~suspended /\ pc = "for"
    /\ IF tc_index <= Len(message.tool_calls)
       THEN LET tool_call == message.tool_calls[tc_index]
                parsed == JsonLoads(tool_call.arguments)
            IN  IF parsed.ok
                THEN /\ tool_args' = parsed.value
                     /\ exc' = exc
                     /\ Emit(CallStep(step_number, tool_call.name, parsed.value),
                             "execute", TRUE)
                ELSE /\ pc' = "except"
                     /\ exc' = <<"JSONDecodeError">>
                     /\ UNCHANGED <<tool_args, pending, after, in_try>>
       ELSE /\ pc' = "while"
            /\ UNCHANGED <<tool_args, exc, pending, after, in_try>>
    /\ UNCHANGED <<inputs, resolver, ui, tables, mcp, runs, suspended, step_number, consecutive_text_responses, messages,
                   message, tc_index, result, world, steps, cb_steps, cb_raised,
                   history>>

\* ForEach with the budget of the docstring, tested before every
\* invocation: no tool is called once max_steps tools were called
ForEachBudgeted ==
    /\ ~suspended /\ pc = "for"
    /\ IF tc_index <= Len(message.tool_calls) /\ Len(dispatched) >= max_steps
       THEN /\ pc' = "max_steps"
            /\ UNCHANGED <<tool_args, pending, after, in_try>>
       ELSE IF tc_index <= Len(message.tool_calls)
       THEN LET tool_call == message.tool_calls[tc_index]
                parsed == JsonLoads(tool_call.arguments)
                args == IF parsed.ok THEN parsed.value ELSE EmptyArgs
            IN  /\ tool_args' = args
                /\ Emit(CallStep(step_number, tool_call.name, args), "execute", TRUE)
       ELSE /\ pc' = "while"
            /\ UNCHANGED <<tool_args, pending, after, in_try>>
    /\ UNCHANGED <<inputs, resolver, ui, tables, mcp, runs, suspended, step_number, consecutive_text_responses, messages,
                   message, tc_index, result, exc, world, steps, cb_steps, cb_raised,
                   history>>

\* lines 162-180: the next invocation of the turn: parse its arguments and
\* emit the tool_call step; or the for loop is over
ForEach ==
    /\ ~suspended /\ pc = "for"
    /\ IF tc_index <= Len(message.tool_calls)
       THEN LET tool_call == message.tool_calls[tc_index]
                parsed == JsonLoads(tool_call.arguments)
                args == IF parsed.ok THEN parsed.value ELSE EmptyArgs
            IN  /\ tool_args' = args
                /\ Emit(CallStep(step_number, tool_call.name, args), "execute", TRUE)
       ELSE /\ pc' = "while"
            /\ UNCHANGED <<tool_args, pending, after, in_try>>
    /\ UNCHANGED <<inputs, resolver, ui, tables, mcp, runs, suspended, step_number, consecutive_text_responses, messages,
                   message, tc_index, result, exc, world, steps, cb_steps, cb_raised,
                   history>>

\* lines 183-207: dispatch the invocation, record its result in the
\* conversation, emit the tool_result step
Execute ==
    /\ ~suspended /\ pc = "execute"
    /\ LET tool_call == message.tool_calls[tc_index]
       IN  \E o \in execute_tool(tool_call.name, tool_args, session, fs) :
               /\ result' = o.result
               /\ session' = o.session
               /\ fs' = o.fs
               /\ messages' = Append(messages,
                                     ToolMessage(tool_call.id, ResultContent(o.result)))
               /\ dispatched' = Append(dispatched,
                                       [id |-> tool_call.id, name |-> tool_call.name,
                                        args |-> tool_args])
               /\ Emit(ResultStep(step_number, ResultContent(o.result), tool_call.name,
                                  o.result), "check", TRUE)
    /\ UNCHANGED <<inputs, resolver, ui, tables, mcp, runs, suspended, step_number, consecutive_text_responses, message,
                   tc_index, tool_args, exc, steps, cb_steps, cb_raised, responses,
                   at_call>>

\* CheckComplete ending the run only when task_complete succeeded
CheckCompleteOnSuccess ==
    /\ ~suspended /\ pc = "check"
    /\ IF message.tool_calls[tc_index].name = "task_complete" /\ result.success
       THEN /\ Emit(AgentStep(step_number, "complete", result.output), "return", TRUE)
            /\ tc_index' = tc_index
       ELSE /\ tc_index' = tc_index + 1
            /\ pc' = "for"
            /\ UNCHANGED <<pending, after, in_try>>
    /\ UNCHANGED <<inputs, resolver, ui, tables, mcp, runs, suspended, step_number, consecutive_text_responses, messages,
                   message, tool_args, result, exc, world, steps, cb_steps, cb_raised,
                   history>>

\* CheckComplete without the `return` after the complete step
CheckCompleteNoReturn ==
    /\ ~suspended /\ pc = "check"
    /\ tc_index' = tc_index + 1
    /\ IF message.tool_calls[tc_index].name = "task_complete"
       THEN Emit(AgentStep(step_number, "complete", result.output), "for", TRUE)
       ELSE pc' = "for" /\ UNCHANGED <<pending, after, in_try>>
    /\ UNCHANGED <<inputs, resolver, ui, tables, mcp, runs, suspended, step_number, consecutive_text_responses, messages,
                   message, tool_args, result, exc, world, steps, cb_steps, cb_raised,
                   history>>

\* CheckComplete whose complete step carries what the conversation record
\* carries: the output and the error
CheckCompleteWithError ==
    /\ ~suspended /\ pc = "check"
    /\ IF message.tool_calls[tc_index].name = "task_complete"
       THEN /\ Emit(AgentStep(step_number, "complete", ResultContent(result)), "return", TRUE)
            /\ tc_index' = tc_index
       ELSE /\ tc_index' = tc_index + 1
            /\ pc' = "for"
            /\ UNCHANGED <<pending, after, in_try>>
    /\ UNCHANGED <<inputs, resolver, ui, tables, mcp, runs, suspended, step_number, consecutive_text_responses, messages,
                   message, tool_args, result, exc, world, steps, cb_steps, cb_raised,
                   history>>

\* lines 210-219: task_complete ends the run
CheckComplete ==
    /\ ~suspended /\ pc = "check"
    /\ IF message.tool_calls[tc_index].name = "task_complete"
       THEN /\ Emit(AgentStep(step_number, "complete", result.output), "return", TRUE)
            /\ tc_index' = tc_index
       ELSE /\ tc_index' = tc_index + 1
            /\ pc' = "for"
            /\ UNCHANGED <<pending, after, in_try>>
    /\ UNCHANGED <<inputs, resolver, ui, tables, mcp, runs, suspended, step_number, consecutive_text_responses, messages,
                   message, tool_args, result, exc, world, steps, cb_steps, cb_raised,
                   history>>

\* TextTurn with the cap tested before the emptiness of the text
TextTurnCapFirst ==
    /\ ~suspended /\ pc = "branch"
    /\ message.tool_calls = <<>>
    /\ consecutive_text_responses' = consecutive_text_responses + 1
    /\ IF consecutive_text_responses' >= max_text_responses
       THEN Emit(AgentStep(step_number, "complete", message.content), "return", TRUE)
       ELSE IF message.content # <<>>
       THEN IF is_complete(message.content)
            THEN Emit(AgentStep(step_number, "complete", message.content), "return", TRUE)
            ELSE Emit(AgentStep(step_number, "thinking", message.content), "append", TRUE)
       ELSE Emit(AgentStep(step_number, "error", <<"Received empty response from model">>),
                 "return", TRUE)
    /\ UNCHANGED <<inputs, resolver, ui, tables, mcp, runs, suspended, step_number, messages, locals, world, steps,
                   cb_steps, cb_raised, history>>

\* TextTurn with the cap compared by > instead of >=
TextTurnLateCap ==
    /\ ~suspended /\ pc = "branch"
    /\ message.tool_calls = <<>>
    /\ consecutive_text_responses' = consecutive_text_responses + 1
    /\ IF message.content # <<>>
       THEN IF \/ is_complete(message.content)
               \/ consecutive_text_responses' > max_text_responses
            THEN Emit(AgentStep(step_number, "complete", message.content), "return", TRUE)
            ELSE Emit(AgentStep(step_number, "thinking", message.content), "append", TRUE)
       ELSE Emit(AgentStep(step_number, "error", <<"Received empty response from model">>),
                 "return", TRUE)
    /\ UNCHANGED <<inputs, resolver, ui, tables, mcp, runs, suspended, step_number, messages, locals, world, steps,
                   cb_steps, cb_raised, history>>

\* lines 221-269: the response has no tool invocations
TextTurn ==
    /\ ~suspended /\ pc = "branch"
    /\ message.tool_calls = <<>>
    /\ consecutive_text_responses' = consecutive_text_responses + 1
    /\ IF message.content # <<>>
       THEN IF \/ is_complete(message.content)
               \/ consecutive_text_responses' >= max_text_responses
            THEN Emit(AgentStep(step_number, "complete", message.content), "return", TRUE)
            ELSE Emit(AgentStep(step_number, "thinking", message.content), "append", TRUE)
       ELSE Emit(AgentStep(step_number, "error", <<"Received empty response from model">>),
                 "return", TRUE)
    /\ UNCHANGED <<inputs, resolver, ui, tables, mcp, runs, suspended, step_number, messages, locals, world, steps,
                   cb_steps, cb_raised, history>>

\* lines 254-258: the text is added to the conversation and the loop goes on
AppendText ==
    /\ ~suspended /\ pc = "append"
    /\ messages' = Append(messages, AssistantTextMessage(message.content))
    /\ pc' = "while"
    /\ UNCHANGED <<inputs, resolver, ui, tables, mcp, runs, suspended, step_number, consecutive_text_responses, locals,
                   pending, after, in_try, world, steps, cb_steps, cb_raised, history>>

\* lines 271-280: except Exception as e
Except ==
    /\ ~suspended /\ pc = "except"
    /\ Emit(AgentStep(step_number, "error", <<"Error: ">> \o exc), "return", FALSE)
    /\ UNCHANGED <<inputs, resolver, ui, tables, mcp, runs, suspended, step_number, consecutive_text_responses, messages,
                   locals, world, steps, cb_steps, cb_raised, history>>

\* MaxSteps without the final error step: the generator just ends
MaxStepsSilent ==
    /\ ~suspended /\ pc = "max_steps"
    /\ pc' = "return"
    /\ UNCHANGED <<inputs, resolver, ui, tables, mcp, runs, suspended, step_number, consecutive_text_responses, messages,
                   locals, pending, after, in_try, world, steps, cb_steps, cb_raised,
                   history>>

\* MaxSteps that yields the error step without passing it to on_step
MaxStepsUnobserved ==
    /\ ~suspended /\ pc = "max_steps"
    /\ pending' = AgentStep(step_number, "error",
                            <<"Maximum steps (", ToString(max_steps),
                              ") reached without completing the task">>)
    /\ after' = "return"
    /\ in_try' = FALSE
    /\ pc' = "yield"
    /\ UNCHANGED <<inputs, resolver, ui, tables, mcp, runs, suspended, step_number, consecutive_text_responses, messages,
                   locals, world, steps, cb_steps, cb_raised, history>>

\* lines 282-290: the loop ran out of steps
MaxSteps ==
    /\ ~suspended /\ pc = "max_steps"
    /\ Emit(AgentStep(step_number, "error",
                      <<"Maximum steps (", ToString(max_steps),
                        ") reached without completing the task">>), "return", FALSE)
    /\ UNCHANGED <<inputs, resolver, ui, tables, mcp, runs, suspended, step_number, consecutive_text_responses, messages,
                   locals, world, steps, cb_steps, cb_raised, history>>

\* `return`, or the end of the function body: the generator is exhausted
Return ==
    /\ ~suspended /\ pc = "return"
    /\ pc' = "done"
    /\ UNCHANGED <<inputs, resolver, ui, tables, mcp, runs, suspended, step_number, consecutive_text_responses, messages,
                   locals, pending, after, in_try, world, steps, cb_steps, cb_raised,
                   history>>

Next ==
    \/ Consume
    \/ Start
    \/ WhileTest
    \/ PlannerReturns
    \/ PlannerRaises
    \/ ToolTurn
    \/ ForEach
    \/ Execute
    \/ CheckComplete
    \/ TextTurn
    \/ AppendText
    \/ Except
    \/ MaxSteps
    \/ OnStepReturns
    \/ OnStepRaises
    \/ Yield
    \/ Return

Spec == Init /\ [][Next]_vars

\* the caller keeps consuming, and every call the loop makes returns or
\* raises; the planner chooses from SignalCalls
LiveSpec == InitWith(SignalCalls) /\ [][Next]_vars /\ WF_vars(Next)

(***************************************************************************)
(* The runs of one process and their tool calls: what each run does to     *)
(* tools._session.  A run is seen through its reset of the session (line   *)
(* 104) and its calls of execute_tool (line 183); each of them happens     *)
(* within one resumption of its generator, so the runs of a caller that    *)
(* holds two generators interleave at these actions.                       *)
(***************************************************************************)
\* the invocations the runs dispatch: name and parsed arguments
ToolCalls ==
    { [name |-> "run_command", args |-> [command |-> <<"l", "s">>]],
      [name |-> "run_command", args |-> [command |-> <<"l", "s">>, working_dir |-> <<"d">>]],
      [name |-> "run_command", args |-> [command |-> <<"l", "s">>, working_dir |-> <<"x">>]],
      [name |-> "run_command", args |-> [command |-> <<"l", "s">>, working_dir |-> IntValue]],
      [name |-> "run_command", args |-> EmptyArgs],
      [name |-> "read_file", args |-> [path |-> <<"f">>]],
      [name |-> "read_file", args |-> [path |-> <<"f">>, max_lines |-> 1]],
      [name |-> "read_file", args |-> [path |-> <<"x">>]],
      [name |-> "read_file", args |-> [path |-> <<"f">>, lines |-> <<"1">>]],
      [name |-> "write_file", args |-> [path |-> <<"n">>, content |-> <<"c">>]],
      [name |-> "write_file", args |-> [path |-> <<"f">>, content |-> <<"c">>, append |-> TRUE]],
      [name |-> "write_file", args |-> [path |-> <<"f", "/", "n">>, content |-> <<"c">>]],
      [name |-> "list_directory", args |-> EmptyArgs],
      [name |-> "list_directory", args |-> [path |-> <<"f">>]],
      [name |-> "get_current_directory", args |-> EmptyArgs],
      [name |-> "change_directory", args |-> [path |-> <<"d">>]],
      [name |-> "change_directory", args |-> [path |-> <<"f">>]],
      [name |-> "change_directory", args |-> [path |-> <<"x">>]],
      [name |-> "change_directory", args |-> [path |-> <<".", ".">>]],
      [name |-> "task_complete", args |-> [summary |-> <<"s">>]],
      [name |-> "task_complete",
       args |-> [summary |-> <<"s">>, files_modified |-> << <<"f">> >>]],
      [name |-> "task_complete", args |-> [summary |-> <<"s">>, files_modified |-> IntValue]],
      [name |-> "task_complete", args |-> EmptyArgs],
      [name |-> "no_such_tool", args |-> EmptyArgs],
      [name |-> "no_such_tool", args |-> [path |-> <<"d">>]] }

\* the process has imported tools.py (line 130: _session = ShellSession())
\* and no run has started
ToolsInit ==
    /\ InitWith(PlannerCalls)
    /\ max_steps = 0
    /\ context = <<>>
    /\ on_step = FALSE
    /\ session = ShellSession

\* the calls of execute_tool made so far, by the runs and for the external
\* client
TotalCalls == calls["A"] + calls["B"] + mcp_calls

\* RunStart without the reset: the run takes the session as it finds it
RunStartNoReset(r) ==
    /\ run_phase[r] = "new"
    /\ run_phase' = [run_phase EXCEPT ![r] = "live"]
    /\ session' = session
    /\ own_session' = [own_session EXCEPT ![r] = session]
    /\ overlapped' = (overlapped \/ \E q \in Runs \ {r} : run_phase[q] = "live")
    /\ UNCHANGED <<inputs, resolver, ui, tables, mcp, pc, suspended, step_number, consecutive_text_responses,
                   messages, locals, pending, after, in_try, fs, steps, cb_steps,
                   cb_raised, history, calls, call, process>>

\* agent_loop.py lines 103-104: the run r starts and resets the session
RunStart(r) ==
    /\ run_phase[r] = "new"
    /\ run_phase' = [run_phase EXCEPT ![r] = "live"]
    /\ session' = reset_session
    /\ own_session' = [own_session EXCEPT ![r] = reset_session]
    /\ overlapped' = (overlapped \/ \E q \in Runs \ {r} : run_phase[q] = "live")
    /\ UNCHANGED <<inputs, resolver, ui, tables, mcp, pc, suspended, step_number, consecutive_text_responses,
                   messages, locals, pending, after, in_try, fs, steps, cb_steps,
                   cb_raised, history, calls, call, process>>

\* agent_loop.py line 183: the run r dispatches an invocation
RunDispatch(r) ==
    /\ run_phase[r] = "live"
    /\ TotalCalls < MaxDispatches
    /\ \E c \in ToolCalls :
           \E o \in execute_tool(c.name, c.args, session, fs) :
               /\ call' = [run |-> r, name |-> c.name, args |-> c.args]
               /\ result' = o.result
               /\ session' = o.session
               /\ fs' = o.fs
               /\ process' = IF "process" \in DOMAIN o THEN o.process ELSE NoProcess
               /\ own_session' = [own_session EXCEPT ![r] = o.session]
    /\ calls' = [calls EXCEPT ![r] = @ + 1]
    /\ UNCHANGED <<inputs, resolver, ui, tables, mcp, pc, suspended, step_number, consecutive_text_responses,
                   messages, message, tc_index, tool_args, exc, pending, after, in_try,
                   steps, cb_steps, cb_raised, history, run_phase, overlapped>>

\* the run r ends: its generator returns
RunEnd(r) ==
    /\ run_phase[r] = "live"
    /\ run_phase' = [run_phase EXCEPT ![r] = "over"]
    /\ UNCHANGED <<inputs, resolver, ui, tables, mcp, pc, suspended, step_number, consecutive_text_responses,
                   messages, locals, pending, after, in_try, world, steps, cb_steps,
                   cb_raised, history, own_session, overlapped, calls, call, process>>

\* the calls the external client makes: each way a call can end (a result,
\* a failure with output, a timeout, an exception in the tool, arguments
\* that do not fit, an unknown name)
McpToolCalls ==
    { c \in ToolCalls :
        \/ c.name \in {"run_command", "no_such_tool"}
        \/ c.name = "change_directory" /\ c.args["path"] \in {<<"d">>, <<"x">>}
        \/ c.name = "write_file" /\ c.args["path"] = <<"n">>
        \/ c.name = "task_complete" /\ DOMAIN c.args = {"summary"} }

\* tools.py lines 540-552: the catalog in the external format
get_mcp_tool_schemas ==
    [i \in 1..Len(catalog) |->
        [name |-> catalog[i].name,
         description |-> catalog[i].description,
         inputSchema |-> catalog[i].parameters]]

\* handle_mcp_tool_call that reports the error text alone for a failed call
handle_mcp_tool_call_error_only(name, args, sess, fsys) ==
    { [outcome |-> o,
       response |->
           IF IsException(o.result) THEN NoResponse
           ELSE [content |-> << [type |-> "text",
                                 text |-> IF o.result.error # <<>>
                                          THEN <<"Error: ">> \o o.result.error
                                          ELSE o.result.output] >>,
                 isError |-> ~o.result.success]] :
      o \in execute_tool(name, args, sess, fsys) }

\* tools.py lines 555-566: the call goes to execute_tool and its result is
\* put in the external format; line 557 is not in a try block, so an
\* exception of execute_tool would leave the function and no response
\* would be returned
handle_mcp_tool_call(name, args, sess, fsys) ==
    { [outcome |-> o,
       response |->
           IF IsException(o.result) THEN NoResponse
           ELSE [content |-> << [type |-> "text",
                                 text |-> IF o.result.error # <<>>
                                          THEN o.result.output \o <<"\n\nError: ">>
                                                   \o o.result.error
                                          ELSE o.result.output] >>,
                 isError |-> ~o.result.success]] :
      o \in execute_tool(name, args, sess, fsys) }

\* the external client asks for the tools
McpList ==
    /\ mcp_tools' = get_mcp_tool_schemas
    /\ UNCHANGED <<inputs, resolver, ui, tables, mcp_calls, mcp_response, pc, suspended, step_number,
                   consecutive_text_responses, messages, locals, pending, after, in_try,
                   world, steps, cb_steps, cb_raised, history, runs>>

\* the external client calls a tool, served while no run is live; the
\* session is the one of the process
McpCall ==
    /\ TotalCalls < MaxDispatches
    /\ \A q \in Runs : run_phase[q] # "live"
    /\ \E c \in McpToolCalls :
           \E h \in handle_mcp_tool_call(c.name, c.args, session, fs) :
               /\ call' = [run |-> "mcp", name |-> c.name, args |-> c.args]
               /\ mcp_response' = h.response
               /\ result' = h.outcome.result
               /\ session' = h.outcome.session
               /\ fs' = h.outcome.fs
               /\ process' = IF "process" \in DOMAIN h.outcome THEN h.outcome.process
                             ELSE NoProcess
    /\ mcp_calls' = mcp_calls + 1
    /\ UNCHANGED <<inputs, resolver, ui, tables, mcp_tools, pc, suspended, step_number,
                   consecutive_text_responses, messages, message, tc_index, tool_args, exc,
                   pending, after, in_try, steps, cb_steps, cb_raised, history, run_phase,
                   own_session, overlapped, calls>>

ToolsNext ==
    \/ \E r \in Runs :
           \/ RunStart(r)
           \/ RunDispatch(r)
           \/ RunEnd(r)
    \/ McpList
    \/ McpCall

ToolsSpec == ToolsInit /\ [][ToolsNext]_vars

(***************************************************************************)
(* One run that works on files: what write_file and list_directory do to   *)
(* the file system and report about it.                                    *)
(***************************************************************************)
\* the invocations of the run: writes that append and that overwrite, to a
\* new file, to an existing one, below directories that are missing, to
\* hidden names, to places that cannot hold a file; listings with and
\* without hidden entries, of a directory, a file and a missing path; reads
\* of the two-line file f with a max_lines below, at and above its number of
\* lines and without one, of the file n and of a missing path
FileCalls ==
    { [name |-> "write_file", args |-> [path |-> p, content |-> c, append |-> a]] :
          p \in {<<"n">>}, c \in {<<"a">>, <<"b">>}, a \in BOOLEAN }
    \cup
    { [name |-> "write_file", args |-> [path |-> <<"f">>, content |-> <<"b">>,
                                        append |-> TRUE]],
      [name |-> "write_file", args |-> [path |-> <<"m", "/", "k", "/", "n">>,
                                        content |-> <<"a">>]],
      [name |-> "write_file", args |-> [path |-> <<"m", "/", "n">>,
                                        content |-> <<"b">>, append |-> TRUE]],
      [name |-> "write_file", args |-> [path |-> <<".", "e", "/", ".", "c">>,
                                        content |-> <<"a">>]],
      [name |-> "write_file", args |-> [path |-> <<"Z">>, content |-> <<"a">>]],
      [name |-> "write_file", args |-> [path |-> <<"f", "/", "n">>, content |-> <<"a">>]],
      [name |-> "write_file", args |-> [path |-> <<"d">>, content |-> <<"a">>]],
      [name |-> "list_directory", args |-> EmptyArgs],
      [name |-> "list_directory", args |-> [show_hidden |-> TRUE]],
      [name |-> "list_directory", args |-> [path |-> <<".", "e">>]],
      [name |-> "list_directory", args |-> [path |-> <<".", "e">>, show_hidden |-> TRUE]],
      [name |-> "list_directory", args |-> [path |-> <<"f">>]],
      [name |-> "list_directory", args |-> [path |-> <<"x">>, show_hidden |-> TRUE]] }
    \cup
    { [name |-> "read_file", args |-> [path |-> <<"f">>, max_lines |-> n]] : n \in 1..3 }
    \cup
    { [name |-> "read_file", args |-> [path |-> <<"f">>]],
      [name |-> "read_file", args |-> [path |-> <<"n">>, max_lines |-> 1]],
      [name |-> "read_file", args |-> [path |-> <<"x">>, max_lines |-> 1]] }

\* agent_loop.py line 183: the run A dispatches an invocation on files
FileCall ==
    /\ run_phase["A"] = "live"
    /\ TotalCalls < MaxFileCalls
    /\ \E c \in FileCalls :
           \E o \in execute_tool(c.name, c.args, session, fs) :
               /\ call' = [run |-> "A", name |-> c.name, args |-> c.args]
               /\ result' = o.result
               /\ session' = o.session
               /\ fs' = o.fs
               /\ process' = NoProcess
               /\ own_session' = [own_session EXCEPT !["A"] = o.session]
    /\ calls' = [calls EXCEPT !["A"] = @ + 1]
    /\ UNCHANGED <<inputs, resolver, ui, tables, mcp, pc, suspended, step_number,
                   consecutive_text_responses, messages, message, tc_index, tool_args, exc,
                   pending, after, in_try, steps, cb_steps, cb_raised, history, run_phase,
                   overlapped>>

FilesNext ==
    \/ RunStart("A")
    \/ FileCall

FilesSpec == ToolsInit /\ [][FilesNext]_vars

(***************************************************************************)
(* Calls of _expand_path on their own: the path and the cwd are any of the *)
(* values below, the call returns once.                                    *)
(***************************************************************************)
\* the paths a caller passes: empty, with the home marker alone and before
\* a separator, with the home marker before the name of a user the system
\* knows (u) and of one it does not know (n), relative with and without
\* separators, dots and backslashes, beginning with a known-folder alias,
\* absolute
RawPaths ==
    { <<>>,
      <<"~">>,
      <<"~", "/">>,
      <<"~", "/", "x">>,
      <<"~", "/", "s", "u", "b", "/", "f">>,
      <<"~", "u">>,
      <<"~", "u", "/", "x">>,
      <<"~", "n">>,
      <<"~", "n", "/", "x">>,
      <<"x">>,
      <<"s", "u", "b", "/", "f">>,
      <<".", ".">>,
      <<".", "/", "x">>,
      <<"a", "\\", "b">>,
      <<"x", "~">>,
      <<"D", "e", "s", "k", "t", "o", "p">>,
      <<"D", "e", "s", "k", "t", "o", "p", "/", "t">>,
      <<"d", "o", "c", "u", "m", "e", "n", "t", "s", "\\", "t">>,
      <<"/">>,
      <<"/", "a">>,
      <<"/", "h", "/", "D", "e", "s", "k", "t", "o", "p">> }

\* the working directories a caller passes: absolute ones, and a relative
\* one
Cwds ==
    { Home, ProcessCwd, <<"/">>, <<"/", "h", "/", "d">>,
      <<"/", "h", "o", "m", "e", "/", "u">>, <<"r">> }

\* _expand_path(raw_path, resolver_cwd) is about to be called
PathsInit ==
    /\ ProgramInit(PlannerCalls)
    /\ max_steps = 0
    /\ context = <<>>
    /\ on_step = FALSE
    /\ session = ShellSession
    /\ raw_path \in RawPaths
    /\ resolver_cwd \in Cwds
    /\ resolved = Unresolved

\* the call returns
Resolve ==
    /\ ~resolved.done
    /\ resolved' = [done |-> TRUE, path |-> expand_path(raw_path, resolver_cwd)]
    /\ UNCHANGED <<inputs, raw_path, resolver_cwd, ui, tables, mcp, pc, suspended, step_number,
                   consecutive_text_responses, messages, locals, pending, after, in_try,
                   world, steps, cb_steps, cb_raised, history, runs>>

PathsNext == Resolve

PathsSpec == PathsInit /\ [][PathsNext]_vars

(***************************************************************************)
(* agent_desktop.py, render_agent_mode: the page that starts a run and     *)
(* consumes its steps.  The script has drawn the page (lines 719-776,      *)
(* agent_steps and agent_running exist in the session state) and the user  *)
(* clicks Run Task once; run_agent_loop is called without a callback.      *)
(***************************************************************************)
\* lines 779-782: Run Task was clicked with a task (the button is disabled
\* while agent_running is set)
RunClicked ==
    /\ render_pc = "idle"
    /\ ~agent_running
    /\ agent_steps' = <<>>
    /\ agent_running' = TRUE
    /\ render_pc' = "provider"
    /\ UNCHANGED <<inputs, resolver, tables, mcp, runs, pc, suspended, step_number,
                   consecutive_text_responses, messages, locals, pending, after, in_try,
                   world, steps, cb_steps, cb_raised, history>>

\* lines 793-797: the active provider is looked up; when it is missing the
\* flag is cleared and the function returns
GetProvider ==
    /\ render_pc = "provider"
    /\ \E found \in BOOLEAN :
           IF found
           THEN agent_running' = agent_running /\ render_pc' = "client"
           ELSE agent_running' = FALSE /\ render_pc' = "returned"
    /\ UNCHANGED <<inputs, resolver, tables, mcp, runs, pc, suspended, step_number,
                   consecutive_text_responses, messages, locals, pending, after, in_try,
                   world, steps, cb_steps, cb_raised, history, agent_steps>>

\* lines 798-811: get_client(provider) returns a client and the for
\* statement is reached (the call of run_agent_loop runs nothing of its
\* body), or it raises (a provider record without "type" or "api_key": lines
\* 85-94) and the exception leaves render_agent_mode, line 798 being outside
\* the try block
GetClient ==
    /\ render_pc = "client"
    /\ \E raises \in BOOLEAN : render_pc' = IF raises THEN "raised" ELSE "for"
    /\ UNCHANGED <<inputs, resolver, tables, mcp, runs, pc, suspended, step_number,
                   consecutive_text_responses, messages, locals, pending, after, in_try,
                   world, steps, cb_steps, cb_raised, history, agent_running, agent_steps>>

\* line 805: the for statement asks the generator for its next step
ForNext ==
    /\ render_pc = "for"
    /\ suspended /\ pc \notin {"done", "raised"}
    /\ suspended' = FALSE
    /\ render_pc' = "next"
    /\ UNCHANGED <<inputs, resolver, tables, mcp, runs, pc, step_number,
                   consecutive_text_responses, messages, locals, pending, after, in_try,
                   world, steps, cb_steps, cb_raised, history, agent_running, agent_steps>>

\* lines 805-826: the generator has answered the request.  A step is stored
\* and displayed; display_agent_step returns or raises; a terminal step
\* clears the flag and breaks, an exception is caught by line 824 and
\* clears the flag.  A generator that returned without a step ends the for
\* statement, one that raised is caught by line 824.
ForBody ==
    /\ render_pc = "next"
    /\ suspended \/ pc \in {"done", "raised"}
    /\ IF pc = "done"
       THEN /\ render_pc' = "exhausted"
            /\ UNCHANGED <<agent_running, agent_steps>>
       ELSE IF pc = "raised"
       THEN /\ render_pc' = "caught"
            /\ agent_running' = FALSE
            /\ agent_steps' = agent_steps
       ELSE /\ agent_steps' = Append(agent_steps, steps[Len(steps)])
            /\ \E displayed \in BOOLEAN :
                   IF ~displayed
                   THEN agent_running' = FALSE /\ render_pc' = "caught"
                   ELSE IF steps[Len(steps)].type \in {"complete", "error"}
                   THEN agent_running' = FALSE /\ render_pc' = "ended"
                   ELSE agent_running' = agent_running /\ render_pc' = "for"
    /\ UNCHANGED <<inputs, resolver, tables, mcp, runs, pc, suspended, step_number,
                   consecutive_text_responses, messages, locals, pending, after, in_try,
                   world, steps, cb_steps, cb_raised, history>>

\* lines 771-776: Reset is clicked on the page drawn after the run
ResetClicked ==
    /\ render_pc \in {"returned", "raised", "caught", "ended", "exhausted"}
    /\ session' = reset_session
    /\ agent_steps' = <<>>
    /\ agent_running' = FALSE
    /\ render_pc' = "reset"
    /\ UNCHANGED <<inputs, resolver, tables, mcp, runs, pc, suspended, step_number,
                   consecutive_text_responses, messages, locals, pending, after, in_try,
                   fs, steps, cb_steps, cb_raised, history>>

\* the page and the body of the generator it consumes
UiNext ==
    \/ RunClicked
    \/ GetProvider
    \/ GetClient
    \/ ForNext
    \/ ForBody
    \/ ResetClicked
    \/ Start
    \/ WhileTest
    \/ PlannerReturns
    \/ PlannerRaises
    \/ ToolTurn
    \/ ForEach
    \/ Execute
    \/ CheckComplete
    \/ TextTurn
    \/ AppendText
    \/ Except
    \/ MaxSteps
    \/ Yield

\* line 810: max_steps=20 is the one budget the page uses (the largest of
\* the model's budgets stands for it); no callback is passed
UiInit ==
    /\ InitWith(PlannerCalls)
    /\ max_steps = MaxStepsBound
    /\ on_step = FALSE

UiSpec == UiInit /\ [][UiNext]_vars

(***************************************************************************)
(* Properties.                                                             *)
(***************************************************************************)
Last(seq) == seq[Len(seq)]

Terminal == {"complete", "error"}

\* a terminal step has been yielded
TerminalEmitted == steps # <<>> /\ Last(steps).type \in Terminal

\* the step that reports the exhausted budget
BudgetStep(n) ==
    AgentStep(n, "error", <<"Maximum steps (", ToString(max_steps),
                            ") reached without completing the task">>)

\* kinds of planner response
TextOnly(r) == ~r.raised /\ r.tool_calls = <<>>

EmptyResponse(r) == TextOnly(r) /\ r.content = <<>>

HasPhrase(r) == is_complete(r.content)

PlainText(r) == TextOnly(r) /\ r.content # <<>> /\ ~HasPhrase(r)

CallsTaskComplete(r) ==
    \E i \in 1..Len(r.tool_calls) : r.tool_calls[i].name = "task_complete"

\* C1: in every run the yielded steps have non-decreasing step numbers, a
\* complete or error step is always the last step yielded (so there is at
\* most one and nothing follows it), and a run that has ended has yielded one.
C1_TerminalStepLast ==
    /\ \A i \in 1..(Len(steps) - 1) : steps[i].step_number <= steps[i + 1].step_number
    /\ \A i \in 1..Len(steps) : steps[i].type \in Terminal => i = Len(steps)
    /\ TerminalEmitted => pc \in {"return", "done"}
    /\ pc = "done" => TerminalEmitted

C1_Witness ==
    /\ pc = "done"
    /\ Len(steps) >= 4
    /\ Last(steps).type = "complete"
    /\ steps[1].step_number < Last(steps).step_number

\* C2: the run never makes more than max_steps planner calls, and when every
\* call returns or raises and the caller keeps consuming, the run eventually
\* yields its terminal step (or the callback's exception leaves the generator).
C2_Terminates ==
    /\ [](planner_calls <= max_steps)
    /\ <>(TerminalEmitted \/ pc = "raised")

C2_Witness ==
    /\ TerminalEmitted
    /\ max_steps >= 3
    /\ planner_calls = max_steps
    /\ Len(dispatched) >= 2

\* C3: a task_complete invocation is dispatched last: its tool_call step is
\* followed by its tool_result step, that by the complete step carrying the
\* result's output, which ends the run; nothing is dispatched after it and no
\* planner call follows it (for a callback that returns normally; when the
\* callback raises, the only step that can follow is the final error step).
C3_TaskCompleteEndsRun ==
    /\ \A i \in 1..Len(steps) :
          (steps[i].type = "tool_call" /\ steps[i].tool_name = "task_complete"
              /\ i < Len(steps) /\ ~cb_raised)
          => /\ steps[i + 1].type = "tool_result"
             /\ steps[i + 1].tool_name = "task_complete"
    /\ \A i \in 1..Len(steps) :
          (steps[i].type = "tool_result" /\ steps[i].tool_name = "task_complete"
              /\ i < Len(steps))
          => /\ i + 1 = Len(steps)
             /\ ~cb_raised =>
                    steps[i + 1] = AgentStep(steps[i].step_number, "complete",
                                             steps[i].tool_result.output)
    /\ \A j \in 1..Len(dispatched) :
          dispatched[j].name = "task_complete"
          => j = Len(dispatched) /\ j > at_call.dispatched
    /\ (pc = "done" /\ ~cb_raised
           /\ \E j \in 1..Len(dispatched) : dispatched[j].name = "task_complete")
       => Last(steps).type = "complete"

C3_Witness ==
    /\ pc = "done"
    /\ ~cb_raised
    /\ Len(message.tool_calls) = 2
    /\ message.tool_calls[1].name = "task_complete"
    /\ Len(dispatched) = 1
    /\ Last(steps).type = "complete"
    /\ Last(steps).content = result.output

\* what C4 concludes: exactly max_steps planner calls, then the budget error
BudgetEnd ==
    /\ planner_calls = max_steps
    /\ steps # <<>>
    /\ Last(steps) = BudgetStep(max_steps)

\* what C4 assumes of the planner (and of the rest of the environment: the
\* planner call returns something and the callback returns normally)
NeverCompletes ==
    /\ ~cb_raised
    /\ \A k \in 1..Len(responses) :
          /\ ~responses[k].raised
          /\ ~EmptyResponse(responses[k])
          /\ ~CallsTaskComplete(responses[k])
          /\ ~HasPhrase(responses[k])

NoTwoTextOnly ==
    \A k \in 1..(Len(responses) - 1) : ~(TextOnly(responses[k]) /\ TextOnly(responses[k + 1]))

\* C4 as stated: a planner that never calls task_complete and never emits a
\* completion phrase makes the run end with max_steps planner calls and the
\* budget error.
C4_Original == (pc = "done" /\ NeverCompletes) => BudgetEnd

\* C4 (amended): if the planner never calls task_complete, never emits a
\* completion phrase, never raises, never answers with an empty response and
\* never gives two consecutive text-only responses, the run makes exactly
\* max_steps planner calls and ends with the error step numbered max_steps
\* that cites the exhausted budget.
C4_BudgetExhaustion == (pc = "done" /\ NeverCompletes /\ NoTwoTextOnly) => BudgetEnd

C4_Witness ==
    /\ pc = "done"
    /\ max_steps = 3
    /\ NeverCompletes /\ NoTwoTextOnly
    /\ planner_calls = 3
    /\ Last(steps) = BudgetStep(3)
    /\ Last(steps).step_number = 3

\* C5: two consecutive text-only responses without a completion phrase end
\* the run at the second of them: no planner call follows, and the run's last
\* step is the complete step carrying the second text.
C5_TextCap ==
    \A k \in 1..(Len(responses) - 1) :
        (PlainText(responses[k]) /\ PlainText(responses[k + 1]))
        => /\ k + 1 = Len(responses)
           /\ pc \in {"branch", "on_step", "yield", "except", "return", "done", "raised"}
           /\ (pc = "done" /\ ~cb_raised)
                  => Last(steps) = AgentStep(k + 1, "complete", responses[k + 1].content)

C5_Witness ==
    /\ pc = "done"
    /\ ~cb_raised
    /\ Len(responses) >= 3
    /\ PlainText(responses[Len(responses) - 1])
    /\ PlainText(Last(responses))
    /\ Last(steps).type = "complete"

\* C6: once a planner call has raised, it stays the last planner call (no
\* retry), nothing more is dispatched, the conversation, the session and the
\* file system stay as the failing call found them, and the only step the run
\* yields afterwards is one error step describing the failure, after which
\* the run is over.
C6_PlannerFailure ==
    planner_raised
    => /\ Last(responses).raised
       /\ \A k \in 1..(Len(responses) - 1) : ~responses[k].raised
       /\ messages = at_call.messages
       /\ session = at_call.session
       /\ fs = at_call.fs
       /\ Len(dispatched) = at_call.dispatched
       /\ pc \in {"except", "on_step", "yield", "return", "done", "raised"}
       /\ Len(steps) <= at_call.steps + 1
       /\ Len(steps) = at_call.steps + 1
              => Last(steps) = AgentStep(planner_calls, "error",
                                         <<"Error: ", "planner failed">>)
       /\ pc = "done" => Len(steps) = at_call.steps + 1

C6_Witness ==
    /\ planner_raised
    /\ pc = "done"
    /\ planner_calls >= 2
    /\ Len(dispatched) >= 1
    /\ session.cwd # Home
    /\ Last(steps).type = "error"

\* C7: a response without invocations and without text is the last response
\* of the run, whatever the text-only counter: nothing is appended to the
\* conversation for it, nothing is dispatched, and the run's last step is the
\* error step "Received empty response from model" (for a callback that
\* returns normally).
C7_EmptyResponse ==
    \A k \in 1..Len(responses) :
        EmptyResponse(responses[k])
        => /\ k = Len(responses)
           /\ messages = at_call.messages
           /\ Len(dispatched) = at_call.dispatched
           /\ Len(steps) <= at_call.steps + 1
           /\ (pc = "done" /\ ~cb_raised)
                  => Last(steps) = AgentStep(k, "error",
                                             <<"Received empty response from model">>)

C7_Witness ==
    /\ pc = "done"
    /\ ~cb_raised
    /\ responses # <<>>
    /\ EmptyResponse(Last(responses))
    /\ consecutive_text_responses = max_text_responses
    /\ Last(steps).type = "error"

\* C8 as stated: a run's terminal step is complete only if task_complete was
\* invoked in the last planner turn or the last response was a text judged
\* complete (phrase or cap), and it is error only if the planner call raised,
\* the response was empty or the budget was exhausted.
C8_TerminalCauses ==
    TerminalEmitted
    => /\ Last(steps).type = "complete"
           => \/ /\ dispatched # <<>>
                 /\ Last(dispatched).name = "task_complete"
                 /\ Len(dispatched) > at_call.dispatched
              \/ /\ TextOnly(Last(responses))
                 /\ Last(responses).content # <<>>
                 /\ \/ HasPhrase(Last(responses))
                    \/ consecutive_text_responses >= max_text_responses
       /\ Last(steps).type = "error"
           => \/ responses # <<>> /\ Last(responses).raised
              \/ responses # <<>> /\ EmptyResponse(Last(responses))
              \/ Last(steps) = BudgetStep(max_steps) /\ planner_calls = max_steps

\* the conversation m answers its invocations: each tool record carries the
\* id of an invocation of an earlier assistant record, and each assistant
\* record with n invocations is followed by exactly the n tool records
\* answering them, in proposal order, before any other record
IsToolRecord(m) == m.role = "tool"

HasInvocations(m) == m.role = "assistant" /\ "tool_calls" \in DOMAIN m

Correlated(m) ==
    /\ \A q \in 1..Len(m) :
          IsToolRecord(m[q])
          => \E p \in 1..(q - 1) :
                 /\ HasInvocations(m[p])
                 /\ \E i \in 1..Len(m[p].tool_calls) :
                        m[p].tool_calls[i].id = m[q].tool_call_id
    /\ \A p \in 1..Len(m) :
          HasInvocations(m[p])
          => LET n == Len(m[p].tool_calls)
             IN  /\ p + n <= Len(m)
                 /\ \A i \in 1..n :
                        /\ IsToolRecord(m[p + i])
                        /\ m[p + i].tool_call_id = m[p].tool_calls[i].id
                        /\ Cardinality({ q \in 1..Len(m) :
                               IsToolRecord(m[q])
                                   /\ m[q].tool_call_id = m[p].tool_calls[i].id }) = 1
                 /\ p + n < Len(m) => ~IsToolRecord(m[p + n + 1])

\* C9: at every planner call the conversation answers its invocations.
C9_Correlation == pc = "call" => Correlated(messages)

C9_Witness ==
    /\ pc = "call"
    /\ planner_calls >= 1
    /\ \E p \in 1..Len(messages) :
           HasInvocations(messages[p]) /\ Len(messages[p].tool_calls) = 2
    /\ Cardinality({ q \in 1..Len(messages) : IsToolRecord(messages[q]) }) >= 2

IsPrefix(a, b) == Len(a) <= Len(b) /\ SubSeq(b, 1, Len(a)) = a

\* the seed conversation of a run with the given context
SeedConversation ==
    << [role |-> "system", content |-> SystemPrompt],
       [role |-> "user",
        content |-> IF context = <<>> THEN <<"t", "a", "s", "k">>
                    ELSE <<"t", "a", "s", "k", "\n", "\n">> \o context] >>

\* C10: the conversation starts as [system prompt, user message] (the task,
\* followed by the context when there is one); every step of the run leaves
\* the conversation as it was or extends it at the end; and each planner call
\* after the first is passed a strict extension of what the previous planner
\* call was passed.
C10_AppendOnly ==
    /\ [](pc # "start" => IsPrefix(SeedConversation, messages))
    /\ [](planner_calls = 0 /\ pc = "call" => messages = SeedConversation)
    /\ [](planner_calls >= 1 /\ pc = "call"
             => IsPrefix(at_call.messages, messages) /\ at_call.messages # messages)
    /\ [][IsPrefix(messages, messages')]_vars

C10_Witness ==
    /\ pc = "call"
    /\ planner_calls = 2
    /\ context # <<>>
    /\ Len(messages) >= 5
    /\ \E q \in 1..Len(messages) : messages[q] = AssistantTextMessage(<<"o", "k">>)

\* C8 without the callback: the causes of C8 are the only causes of a
\* terminal step in the runs in which no call of on_step has raised
C8_CausesWithoutCallback == ~cb_raised => C8_TerminalCauses

(***************************************************************************)
(* The steps of a planner turn with invocations.                           *)
(***************************************************************************)
\* the non-terminal steps yielded with step number k, in order
TurnSteps(k) ==
    SelectSeq(steps, LAMBDA s : s.step_number = k /\ s.type \notin Terminal)

\* what identifies a step within its turn: its kind, tool and text (a
\* tool_result step's text is the tool's answer and is left open)
Kind(s) ==
    [type |-> s.type,
     tool_name |-> IF "tool_name" \in DOMAIN s THEN s.tool_name ELSE "",
     content |-> IF s.type = "tool_result" THEN <<>> ELSE s.content]

\* the kinds of the steps of a turn that runs through all the invocations
\* of the response r
ExpectedKinds(r) ==
    (IF r.content # <<>>
     THEN << [type |-> "thinking", tool_name |-> "", content |-> r.content] >>
     ELSE <<>>)
    \o [j \in 1..(2 * Len(r.tool_calls)) |->
           LET tc == r.tool_calls[(j + 1) \div 2]
           IN  IF j % 2 = 1
               THEN [type |-> "tool_call", tool_name |-> tc.name,
                     content |-> <<"Calling ", tc.name>>]
               ELSE [type |-> "tool_result", tool_name |-> tc.name, content |-> <<>>]]

KindsOf(k) == [j \in 1..Len(TurnSteps(k)) |-> Kind(TurnSteps(k)[j])]

\* C11: the steps of a turn with invocations are, in order, the thinking
\* step exactly when the turn has a text, then for each invocation in
\* proposal order its tool_call step directly followed by its tool_result
\* step (same tool, same step number); a turn that a later planner call
\* follows has all of them; and an invocation is dispatched only after its
\* tool_call step and after the tool_result steps of the invocations before
\* it were yielded.
C11_TurnOrder ==
    /\ \A k \in 1..Len(responses) :
          responses[k].tool_calls # <<>>
          => /\ IsPrefix(KindsOf(k), ExpectedKinds(responses[k]))
             /\ k < Len(responses) => KindsOf(k) = ExpectedKinds(responses[k])
    /\ (responses # <<>> /\ Last(responses).tool_calls # <<>>)
       => LET k == Len(responses)
              n == Len(dispatched) - at_call.dispatched
              call_steps == Len(SelectSeq(TurnSteps(k), LAMBDA s : s.type = "tool_call"))
              result_steps == Len(SelectSeq(TurnSteps(k), LAMBDA s : s.type = "tool_result"))
          IN  /\ n <= call_steps
              /\ n <= result_steps + 1
              /\ result_steps <= n

C11_Witness ==
    /\ Len(responses) >= 2
    /\ responses[1].content # <<>>
    /\ Len(responses[1].tool_calls) = 2
    /\ Len(TurnSteps(1)) = 5
    /\ TurnSteps(1)[4].type = "tool_call"
    /\ TurnSteps(1)[5].type = "tool_result"
    /\ TurnSteps(1)[4].tool_name = responses[1].tool_calls[2].name

\* the payload of the invocation is not JSON
Malformed(tc) == ~JsonLoads(tc.arguments).ok

\* the place of the tool_call step of invocation i among the steps of a
\* turn that answers the response r
CallPlace(r, i) == (IF r.content # <<>> THEN 1 ELSE 0) + 2 * i - 1

\* C12: an invocation with a malformed payload is handled like any other,
\* with an empty argument set: its tool_call step and its dispatch carry
\* empty arguments, its tool_result step comes with a tool record of its id
\* in the conversation, and a run that has ended (its callback returning
\* normally) has gone through it: unless task_complete came before it in the
\* turn, both its steps were yielded, and unless it is task_complete itself
\* the next invocation of the turn was taken up or, after the last one, the
\* next planner call was made or the budget was exhausted.
C12_MalformedPayload ==
    \A k \in 1..Len(responses) :
        \A i \in 1..Len(responses[k].tool_calls) :
            LET r == responses[k]
                tc == r.tool_calls[i]
                ts == TurnSteps(k)
                c == CallPlace(r, i)
            IN  Malformed(tc)
                => /\ Len(ts) >= c => ts[c].tool_args = EmptyArgs
                   /\ \A j \in 1..Len(dispatched) :
                          dispatched[j].id = tc.id => dispatched[j].args = EmptyArgs
                   /\ Len(ts) >= c + 1
                          => /\ \E j \in 1..Len(dispatched) : dispatched[j].id = tc.id
                             /\ \E q \in 1..Len(messages) :
                                    messages[q] = ToolMessage(tc.id, ts[c + 1].content)
                   /\ (/\ pc = "done" /\ ~cb_raised
                       /\ \A h \in 1..(i - 1) : r.tool_calls[h].name # "task_complete")
                          => /\ Len(ts) >= c + 1
                             /\ tc.name # "task_complete"
                                    => IF i < Len(r.tool_calls)
                                       THEN Len(ts) >= c + 2
                                       ELSE \/ k < Len(responses)
                                            \/ Last(steps) = BudgetStep(max_steps)

C12_Witness ==
    /\ pc = "done"
    /\ ~cb_raised
    /\ Len(responses) >= 2
    /\ Len(responses[1].tool_calls) = 2
    /\ Malformed(responses[1].tool_calls[1])
    /\ responses[1].tool_calls[1].name = "change_directory"
    /\ Len(TurnSteps(1)) >= 4
    /\ TurnSteps(1)[2].type = "tool_result"
    /\ ~TurnSteps(1)[2].tool_result.success

(***************************************************************************)
(* Properties of the tool calls.                                           *)
(***************************************************************************)
\* this step is a call of execute_tool (the call is call', its result result')
Dispatching == TotalCalls' = TotalCalls + 1

\* the arguments do not fit the parameters of the tool
Mismatch(c) ==
    /\ c.name \in TOOL_FUNCTIONS
    /\ \/ DOMAIN c.args \ (Signature[c.name].required \cup Signature[c.name].optional) # {}
       \/ Signature[c.name].required \ DOMAIN c.args # {}

\* the path argument of the call c as the tool resolves it in the session sess
Target(c, sess) == PurePath(expand_path(c.args["path"], sess.cwd))

\* C13: a call of execute_tool with a name outside the catalog returns the
\* failed result "Unknown tool: <name>" (it does not raise), runs no
\* subprocess and leaves the session and the file system as they were.
C13_UnknownTool ==
    [][(Dispatching /\ call'.name \notin TOOL_FUNCTIONS)
          => /\ ~IsException(result')
             /\ result' = ToolResult(FALSE, <<>>, <<"Unknown tool: ", call'.name>>)
             /\ session' = session
             /\ fs' = fs
             /\ process' = NoProcess]_vars

C13_Witness ==
    /\ call.name \notin TOOL_FUNCTIONS
    /\ call.name # ""
    /\ call.args # EmptyArgs
    /\ ~result.success
    /\ TotalCalls = MaxDispatches
    /\ session.cwd # Home \/ session.history # <<>>

\* C14: no call of execute_tool raises, and a failed result has an error
\* text; arguments that do not fit the parameters yield the failed result
\* "Invalid arguments for <tool>: ..." naming a key in question, without
\* running the tool (session, file system unchanged, no subprocess); and a
\* failure inside a tool (path missing, not a file, not a directory, parent
\* not a directory, working directory missing, timeout, an exception leaving
\* its body) yields a failed result.
C14_NeverRaises ==
    [][Dispatching
          => LET c == call'
                 fit == c.name \in TOOL_FUNCTIONS /\ ~Mismatch(c)
             IN  /\ ~IsException(result')
                 /\ ~result'.success => result'.error # <<>>
                 /\ Mismatch(c)
                        => /\ ~result'.success
                           /\ result'.error[1] = "Invalid arguments for "
                           /\ result'.error[2] = c.name
                           /\ result'.error[4] \in
                                  (DOMAIN c.args \ (Signature[c.name].required
                                                      \cup Signature[c.name].optional))
                                  \cup (Signature[c.name].required \ DOMAIN c.args)
                           /\ session' = session /\ fs' = fs /\ process' = NoProcess
                 /\ process'.timed_out => ~result'.success
                 /\ (fit /\ c.name = "read_file" /\ ~IsFile(fs, Target(c, session)))
                        => ~result'.success
                 /\ (fit /\ c.name = "change_directory" /\ ~IsDir(fs, Target(c, session)))
                        => ~result'.success
                 /\ (fit /\ c.name = "list_directory" /\ "path" \in DOMAIN c.args
                         /\ ~IsDir(fs, Target(c, session)))
                        => ~result'.success
                 /\ (fit /\ c.name = "write_file"
                         /\ ~MkdirParents(fs, PureParent(Target(c, session))).ok)
                        => ~result'.success
                 /\ (fit /\ c.name = "run_command" /\ "working_dir" \in DOMAIN c.args
                         /\ \/ IsInt(c.args["working_dir"])
                            \/ ~IsDir(fs, expand_path(c.args["working_dir"], session.cwd)))
                        => ~result'.success
                 /\ (fit /\ c.name = "task_complete" /\ "files_modified" \in DOMAIN c.args
                         /\ IsInt(c.args["files_modified"]))
                        => ~result'.success]_vars

C14_Witness ==
    /\ call.name = "run_command"
    /\ "working_dir" \in DOMAIN call.args
    /\ IsInt(call.args["working_dir"])
    /\ ~result.success
    /\ result.error[1] = "Error executing "
    /\ TotalCalls = MaxDispatches

\* C15: when the runs of the process follow one another (none starts while
\* another is live), a run that has started and made no tool call yet has
\* the fresh session: cwd is the home directory, the environment is the
\* snapshot of the process environment and the history is empty, whatever
\* the earlier run did to the session.
C15_FreshSession ==
    ~overlapped
    => \A r \in Runs :
           (run_phase[r] = "live" /\ calls[r] = 0)
           => /\ session = [cwd |-> Home, env |-> OsEnviron, history |-> <<>>]
              /\ own_session[r] = session

C15_Witness ==
    /\ ~overlapped
    /\ run_phase["A"] = "over"
    /\ calls["A"] = 1
    /\ own_session["A"].cwd # Home
    /\ run_phase["B"] = "live"
    /\ calls["B"] = 0
    /\ session.cwd = Home

\* C16 as stated: every tool call of a run finds the session as the run's
\* own last action left it (its start or its previous tool call), also when
\* the runs are interleaved.
C16_OwnSession ==
    [][\A r \in Runs : calls'[r] = calls[r] + 1 => session = own_session[r]]_vars

\* C16 for runs that follow one another: no run starts while another is live
C16_SequentialRuns ==
    [][\A r \in Runs :
          (calls'[r] = calls[r] + 1 /\ ~overlapped) => session = own_session[r]]_vars

\* a step of ToolsSpec that starts a run
Starting == \E r \in Runs : run_phase[r] = "new" /\ run_phase'[r] = "live"

\* the tools that neither change the directory nor run a command
SessionReaders ==
    {"read_file", "write_file", "list_directory", "get_current_directory", "task_complete"}

\* C17: the session changes only when a tool executes (or a run starts and
\* resets it); a tool execution leaves the environment alone, changes the
\* cwd only if it is a successful change_directory, changes the history
\* only if it is run_command; the five other tools leave the whole session
\* unchanged, and run_command, with or without working_dir, leaves the cwd
\* unchanged.
C17_SessionFrame ==
    [][/\ (~Dispatching /\ ~Starting) => session' = session
       /\ Dispatching =>
              /\ session'.env = session.env
              /\ session'.cwd # session.cwd
                 => (call'.name = "change_directory" /\ result'.success)
              /\ session'.history # session.history => call'.name = "run_command"
              /\ call'.name \in SessionReaders => session' = session
              /\ call'.name = "run_command" => session'.cwd = session.cwd]_vars

\* a command has run in working_dir d, its record says so, and the session
\* is still in the home directory
C17_Witness ==
    /\ call.name = "run_command"
    /\ "working_dir" \in DOMAIN call.args
    /\ result.success
    /\ session.history # <<>>
    /\ Last(session.history).cwd = <<"/", "h", "/", "d">>
    /\ session.cwd = Home

\* a path that _expand_path joins to the session cwd
RelativePath(path) ==
    /\ path # <<>>
    /\ ~StartsWith(path, <<"~">>)
    /\ ~IsAbs(path)

\* the call c with its path argument resolved against the directory cwd
Resolved(c, cwd) == [c EXCEPT !.args = [@ EXCEPT !["path"] = PathJoin(cwd, @)]]

\* C18: change_directory(path) succeeds and sets the session cwd to the
\* resolved absolute path exactly when that path exists and is a directory,
\* else it returns success = false and leaves the cwd unchanged;
\* get_current_directory returns the session cwd, and a later call with a
\* relative path does what the same call with the path joined to the
\* session cwd does.
C18_ChangeDirectory ==
    [][Dispatching =>
          /\ (call'.name = "change_directory" /\ ~Mismatch(call'))
             => LET path == AbsPath(expand_path(call'.args["path"], session.cwd))
                IN  IF Exists(fs, path) /\ IsDir(fs, path)
                    THEN /\ result'.success
                         /\ session'.cwd = path
                         /\ IsAbs(session'.cwd)
                    ELSE /\ ~result'.success
                         /\ session'.cwd = session.cwd
          /\ (call'.name = "get_current_directory" /\ ~Mismatch(call'))
             => (result'.success /\ result'.output = session.cwd)
          /\ (/\ call'.name \in {"read_file", "write_file", "list_directory",
                                 "change_directory"}
              /\ ~Mismatch(call')
              /\ "path" \in DOMAIN call'.args
              /\ RelativePath(call'.args["path"]))
             => \E o \in execute_tool(call'.name,
                                      Resolved(call', session.cwd).args, session, fs) :
                    /\ result' = o.result
                    /\ session' = o.session
                    /\ fs' = o.fs]_vars

\* after a change to /h/d the relative path f, a file of the home
\* directory, is not found
C18_Witness ==
    /\ session.cwd = <<"/", "h", "/", "d">>
    /\ calls["A"] = 2
    /\ call.name = "read_file"
    /\ call.args = [path |-> <<"f">>]
    /\ ~result.success

\* the record run_command appends for the call c that ran in the session sess
HistoryRecord(c, sess, p) ==
    [command |-> c.args["command"],
     cwd |-> IF "working_dir" \in DOMAIN c.args
             THEN expand_path(c.args["working_dir"], sess.cwd) ELSE sess.cwd,
     exit_code |-> p.returncode]

\* the step ran a shell command (to its end or to the timeout)
RanCommand == Dispatching /\ call'.name = "run_command" /\ process' # NoProcess

\* C19: every execution of run_command appends exactly one record
\* {command, cwd, exit_code} with the directory the command ran in, and no
\* step of a run removes or modifies a record.
C19_HistoryRecord ==
    [][/\ RanCommand
          => session'.history =
                 Append(session.history, HistoryRecord(call', session, process'))
       /\ ~Starting
          => /\ Len(session'.history) >= Len(session.history)
             /\ SubSeq(session'.history, 1, Len(session.history)) = session.history]_vars

\* C19 for the commands that end before the timeout: one record each, in
\* execution order, and the history only grows at its end.
C19_CompletedCommands ==
    [][/\ (RanCommand /\ ~process'.timed_out)
          => session'.history =
                 Append(session.history, HistoryRecord(call', session, process'))
       /\ ~Starting
          => /\ Len(session'.history) >= Len(session.history)
             /\ SubSeq(session'.history, 1, Len(session.history)) = session.history]_vars

\* C20: a command that ends with a non-zero exit status returns
\* success = false, output = the captured stdout, error = the exit code and
\* the captured stderr; and no failed run_command drops what the command
\* wrote to its stdout.
C20_FailurePolicy ==
    [][RanCommand =>
          /\ (~process'.timed_out /\ process'.returncode # 0)
             => /\ ~result'.success
                /\ result'.output = process'.stdout
                /\ result'.error =
                       <<"Command failed with exit code ",
                         ToString(process'.returncode), "\n">> \o process'.stderr
          /\ ~result'.success => result'.output = process'.stdout]_vars

\* C20 for the non-zero exit status alone.
C20_NonZeroExit ==
    [][(RanCommand /\ ~process'.timed_out /\ process'.returncode # 0)
          => /\ ~result'.success
             /\ result'.output = process'.stdout
             /\ result'.error =
                    <<"Command failed with exit code ",
                      ToString(process'.returncode), "\n">> \o process'.stderr]_vars

\* C21: the run is a lazy producer. While the generator is suspended no
\* planner call, no dispatch and no change of the session, the file system
\* or the conversation happens; handing a step over suspends the generator,
\* so nothing more is computed until the caller asks for the next step; a
\* tool is dispatched only when the last step handed over is its tool_call
\* step; and at every planner call every step computed so far has been
\* handed over.
C21_LazyProducer ==
    [][/\ suspended
          => /\ responses' = responses
             /\ dispatched' = dispatched
             /\ session' = session
             /\ fs' = fs
             /\ messages' = messages
             /\ steps' = steps
             /\ cb_steps' = cb_steps
       /\ steps' # steps => (suspended' /\ steps' = Append(steps, pending))
       /\ dispatched' # dispatched
          => /\ steps # <<>>
             /\ Last(steps) = CallStep(step_number, Last(dispatched').name,
                                       Last(dispatched').args)
             /\ Last(steps) = pending
       /\ responses' # responses
          => \/ steps = <<>> /\ pending = NoStep /\ Len(responses) = 0
             \/ /\ steps # <<>>
                /\ Last(steps) = pending
                /\ Last(steps).step_number = Len(responses)]_vars

\* the caller holds the tool_call step of the second invocation of a turn
\* and has not asked for more: the first invocation ran, the second did not
C21_Witness ==
    /\ suspended
    /\ steps # <<>>
    /\ Last(steps).type = "tool_call"
    /\ Len(dispatched) = 1
    /\ pc = "execute"
    /\ tc_index = 2

\* the step numbers of the steps handed over
StepNumbers == { steps[i].step_number : i \in 1..Len(steps) }

\* a step's number is the number of planner calls made when it is emitted,
\* and the numbers handed over rise by 0 or 1 from one step to the next
NumberedByPlannerCalls ==
    /\ step_number = Len(responses) + (IF pc = "call" THEN 1 ELSE 0)
    /\ pc \in {"on_step", "yield"} => pending.step_number = Len(responses)
    /\ \A i \in 1..Len(steps) : steps[i].step_number <= Len(responses)
    /\ \A i \in 1..(Len(steps) - 1) :
           steps[i + 1].step_number - steps[i].step_number \in {0, 1}

\* C22: every step handed over, the terminal one included, has
\* step_number >= 1 whatever max_steps is; a step's number is the number of
\* planner calls made so far, and the numbers used are 1, 2, .. without a
\* gap.
C22_StepNumbers ==
    /\ \A i \in 1..Len(steps) : steps[i].step_number >= 1
    /\ NumberedByPlannerCalls
    /\ steps # <<>> => StepNumbers = 1..Last(steps).step_number

\* C22 for a run with a budget of at least one step.
C22_PositiveBudget == max_steps >= 1 => C22_StepNumbers

\* C22 without the lower bound: with max_steps = 0 the one step has number 0.
C22_ZeroBudget ==
    max_steps = 0
    => /\ NumberedByPlannerCalls
       /\ \A i \in 1..Len(steps) :
              steps[i] = AgentStep(0, "error",
                                   <<"Maximum steps (", "0",
                                     ") reached without completing the task">>)

\* C23: in any run the number of tool invocations dispatched does not
\* exceed max_steps.
C23_ToolCallBudget == Len(dispatched) <= max_steps

\* C23 for what max_steps does bound: the planner calls of the run; the
\* dispatches belong to turns counted by it.
C23_PlannerCallBudget ==
    /\ Len(responses) <= max_steps
    /\ Len(dispatched) > 0 => Len(responses) >= 1

\* the text holds a closure phrase, letter case aside, at some position
HoldsClosurePhrase(text) ==
    \E phrase \in CompletionPhrases :
        \E i \in 0..(Len(text) - Len(phrase)) :
            \A j \in 1..Len(phrase) : LowerChar(text[i + j]) = phrase[j]

\* all the steps handed over with step number k
StepsNumbered(k) == SelectSeq(steps, LAMBDA s : s.step_number = k)

\* C24: for every text-only, non-empty planner response k: when its text
\* holds a closure phrase (lower-cased, as a substring) or the response
\* before it was text-only too, no planner call follows and the turn's only
\* step, the last of the run, is the complete step with that text;
\* otherwise the turn's first step is the thinking step with that text, the
\* next planner call sees the text appended as an assistant turn, and the
\* run does not end at this turn unless the budget ends it (in runs whose
\* step callback returns normally).
C24_TextTurn ==
    ~cb_raised =>
    \A k \in 1..Len(responses) :
        (TextOnly(responses[k]) /\ responses[k].content # <<>>)
        => LET text == responses[k].content
               closing == \/ HoldsClosurePhrase(text)
                          \/ (k > 1 /\ TextOnly(responses[k - 1]))
               mine == StepsNumbered(k)
           IN  IF closing
               THEN /\ k = Len(responses)
                    /\ pc \notin {"append", "while", "call", "max_steps"}
                    /\ mine # <<>> => mine = << AgentStep(k, "complete", text) >>
                    /\ (pc = "done" /\ ~cb_raised)
                       => Last(steps) = AgentStep(k, "complete", text)
               ELSE /\ mine # <<>> => mine[1] = AgentStep(k, "thinking", text)
                    /\ \A i \in 1..Len(mine) : mine[i].type # "complete"
                    /\ k + 1 = Len(responses)
                       => Last(at_call.messages) = AssistantTextMessage(text)
                    /\ (pc = "done" /\ ~cb_raised /\ k = Len(responses))
                       => /\ k = max_steps
                          /\ Last(steps) = BudgetStep(k)

\* a first text 'ok' went on to a second planner call, whose text holds
\* 'done' inside 'UnDONE!' and closed the run
C24_Witness ==
    /\ pc = "done"
    /\ ~cb_raised
    /\ max_steps = 3
    /\ Len(responses) = 3
    /\ responses[1].tool_calls # <<>>
    /\ PlainText(responses[2])
    /\ TextOnly(responses[3])
    /\ responses[3].content = <<"U", "n", "D", "O", "N", "E", "!">>
    /\ Last(steps) = AgentStep(3, "complete", responses[3].content)

RECURSIVE TrailingTextOnly(_)
\* the number of text-only responses at the end of rs, after the last
\* response with invocations
TrailingTextOnly(rs) ==
    IF rs = <<>> \/ ~TextOnly(rs[Len(rs)]) THEN 0
    ELSE 1 + TrailingTextOnly(SubSeq(rs, 1, Len(rs) - 1))

\* C25: at every planner call the text-only counter is 0 or 1 and is the
\* number of text-only responses since the last turn with invocations; of
\* two consecutive text-only turns the second never continues the loop; and
\* a text-only turn without a closure phrase that does not directly follow
\* another text-only turn is never answered with a complete step.
C25_TextCounter ==
    /\ pc = "call"
       => /\ consecutive_text_responses \in {0, 1}
          /\ consecutive_text_responses = TrailingTextOnly(responses)
    /\ \A k \in 1..(Len(responses) - 1) :
           (TextOnly(responses[k]) /\ TextOnly(responses[k + 1]))
           => /\ k + 1 = Len(responses)
              /\ pc \notin {"append", "while", "call", "max_steps"}
    /\ \A k \in 1..Len(responses) :
           (/\ PlainText(responses[k])
            /\ (k = 1 \/ ~TextOnly(responses[k - 1])))
           => \A i \in 1..Len(steps) :
                  ~(steps[i].step_number = k /\ steps[i].type = "complete")

\* text, tool turn, text: the third response, the second text-only one of
\* the run, continued the loop and the budget ended the run
C25_Witness ==
    /\ pc = "done"
    /\ max_steps = 3
    /\ Len(responses) = 3
    /\ PlainText(responses[1])
    /\ responses[2].tool_calls # <<>>
    /\ PlainText(responses[3])
    /\ consecutive_text_responses = 1
    /\ \E i \in 1..Len(steps) : steps[i] = AgentStep(3, "thinking", responses[3].content)
    /\ Last(steps) = BudgetStep(3)

\* the arguments of the call c fit task_complete: a summary, and
\* files_modified absent or a list
FitsTaskComplete(c) ==
    /\ "summary" \in DOMAIN c.args
    /\ DOMAIN c.args \subseteq {"summary", "files_modified"}
    /\ ("files_modified" \in DOMAIN c.args => ~IsInt(c.args["files_modified"]))

CatalogNames == [i \in 1..Len(catalog) |-> catalog[i].name]

\* the call was answered by the dispatcher itself: no function was looked up
RejectedAsUnknown(c, r) ==
    r = ToolResult(FALSE, <<>>, <<"Unknown tool: ", c.name>>)

\* C27: the catalog holds seven pairwise distinct names; the dispatch table
\* binds exactly these names, each to one function, no two to the same one;
\* no step changes the catalog or the table; and execute_tool rejects a
\* call as unknown exactly when its name is not in the catalog, and
\* otherwise answers with what the function bound to the name does.
C27_CatalogDispatch ==
    [][/\ Len(catalog) = 7
       /\ \A i, j \in 1..Len(catalog) : catalog[i].name = catalog[j].name => i = j
       /\ DOMAIN dispatch_table = { catalog[i].name : i \in 1..Len(catalog) }
       /\ \A m, n \in DOMAIN dispatch_table : dispatch_table[m] = dispatch_table[n] => m = n
       /\ \A n \in DOMAIN dispatch_table : dispatch_table[n] = n
       /\ catalog' = catalog
       /\ dispatch_table' = dispatch_table
       /\ Dispatching
          => LET known == \E i \in 1..Len(catalog) : catalog[i].name = call'.name
             IN  /\ RejectedAsUnknown(call', result') <=> ~known
                 /\ (known /\ ~Mismatch(call'))
                    => \E o \in CallTool(call'.name, call'.args, session, fs) :
                           /\ result' = Caught(call'.name, o).result
                           /\ session' = o.session
                           /\ fs' = o.fs]_vars

\* one run called a tool of the catalog, which ran, and then a name that
\* the catalog does not hold, which was rejected
C27_Witness ==
    /\ TotalCalls = 2
    /\ session.cwd = <<"/", "h", "/", "d">>
    /\ call.name = "no_such_tool"
    /\ RejectedAsUnknown(call, result)
    /\ catalog = TOOL_DEFINITIONS

\* a step in which handle_mcp_tool_call was called
McpCalling == mcp_calls' = mcp_calls + 1

\* C28: get_mcp_tool_schemas lists the tools of the catalog, the same seven
\* names in the same order with the same parameter schemas, all bound in
\* the dispatch table; and every call of handle_mcp_tool_call leaves the
\* session and the file system as execute_tool leaves them for the same
\* name and arguments, returns a response (it never raises), reports
\* isError = not success, and carries as its one text the text the agent
\* loop appends to the conversation for that ToolResult.
C28_McpEquivalence ==
    [][/\ mcp_tools' # <<>>
          => /\ Len(mcp_tools') = 7
             /\ [i \in 1..Len(mcp_tools') |-> mcp_tools'[i].name] = CatalogNames
             /\ \A i \in 1..Len(mcp_tools') :
                    /\ mcp_tools'[i].inputSchema = TOOL_DEFINITIONS[i].parameters
                    /\ mcp_tools'[i].name \in DOMAIN dispatch_table
       /\ McpCalling
          => \E o \in execute_tool(call'.name, call'.args, session, fs) :
                 /\ session' = o.session
                 /\ fs' = o.fs
                 /\ result' = o.result
                 /\ ~IsException(o.result)
                 /\ mcp_response'.isError = ~o.result.success
                 /\ mcp_response'.content
                        = << [type |-> "text", text |-> ResultContent(o.result)] >>]_vars

\* the client listed the tools and its call of run_command failed with
\* output: the text holds the output and then the error
C28_Witness ==
    /\ mcp_tools # <<>>
    /\ call.run = "mcp"
    /\ call.name = "run_command"
    /\ mcp_response.isError
    /\ result.output # <<>>
    /\ result.error # <<>>
    /\ mcp_response.content[1].text = result.output \o <<"\n\nError: ">> \o result.error

\* s ends with t
EndsWith(s, t) == Len(s) >= Len(t) /\ SubSeq(s, Len(s) - Len(t) + 1, Len(s)) = t

\* the call c is a write_file with fitting arguments, in the mode append
Writes(c, append) ==
    /\ c.name = "write_file"
    /\ ~Mismatch(c)
    /\ Arg(c.args, "append", FALSE) = append

\* C29: a successful write_file with append = true leaves the file holding
\* what it held before followed by the content, so two appending writes of
\* a then b to one path leave a content that ends with ab; with
\* append = false it leaves exactly the content, so after two overwriting
\* writes the file holds the last content; in both modes the directories
\* above the file exist afterwards, the new entries are the file and
\* directories above it, and nothing else changes.
C29_WriteFile ==
    [][(Dispatching /\ call'.name = "write_file" /\ ~Mismatch(call') /\ result'.success)
          => LET p == Target(call', session)
                 content == call'.args["content"]
                 held == IF p \in DOMAIN fs THEN fs[p].content ELSE <<>>
             IN  /\ p \in DOMAIN fs'
                 /\ fs'[p].kind = "file"
                 /\ Writes(call', TRUE) => fs'[p].content = held \o content
                 /\ Writes(call', FALSE) => fs'[p].content = content
                 /\ \A q \in DOMAIN fs' : q # <<"/">> => IsDir(fs', Parent(q))
                 /\ \A q \in DOMAIN fs : q # p => fs'[q] = fs[q]
                 /\ \A q \in DOMAIN fs' \ DOMAIN fs :
                        q # p => (fs'[q].kind = "dir" /\ StartsWith(p, q \o <<"/">>))
                 /\ (Writes(call, TRUE) /\ Writes(call', TRUE)
                         /\ result.success /\ Target(call, session) = p)
                    => EndsWith(fs'[p].content, call.args["content"] \o content)
                 /\ (Writes(call, FALSE) /\ Writes(call', FALSE)
                         /\ result.success /\ Target(call, session) = p)
                    => fs'[p].content = content]_vars

\* below two directories made by a first write, a was appended to the new
\* file n and then b: n holds ab
C29_Witness ==
    /\ calls["A"] = 3
    /\ Writes(call, TRUE)
    /\ result.success
    /\ call.args["content"] = <<"b">>
    /\ <<"/", "h", "/", "n">> \in DOMAIN fs
    /\ fs[<<"/", "h", "/", "n">>].content = <<"a", "b">>
    /\ IsDir(fs, <<"/", "h", "/", "m", "/", "k">>)
    /\ IsFile(fs, <<"/", "h", "/", "m", "/", "k", "/", "n">>)

\* the lines of a listing after its header
ListingLines(output) ==
    LET body == From(output, Find(output, "\n\n", 0) + 1)
    IN  IF body = <<>> THEN <<>> ELSE Split(body, "\n")

\* the name a line of a listing shows
ListedName(line) ==
    IF line[1] = "[dir] " THEN SubSeq(line, 2, Len(line) - 1)
    ELSE SubSeq(line, 2, Find(line, " (", 0))

\* C30: list_directory of a path that exists and is a directory succeeds,
\* changes nothing, and lists one line per entry of the directory whose
\* name does not start with '.', or per entry when show_hidden = true, no
\* other line, in ascending order of the names, a directory as '[dir] name/'
\* and a file as '[file] name (size)'; for a missing path or one that is
\* not a directory it returns success = false.
C30_ListDirectory ==
    [][(Dispatching /\ call'.name = "list_directory" /\ ~Mismatch(call'))
          => LET dir == IF "path" \in DOMAIN call'.args THEN Target(call', session)
                        ELSE session.cwd
                 show_hidden == Arg(call'.args, "show_hidden", FALSE)
                 shown == { q \in DOMAIN fs :
                              /\ q # <<"/">>
                              /\ Parent(q) = dir
                              /\ (show_hidden \/ PathName(q)[1] # ".") }
                 lines == ListingLines(result'.output)
             IN  /\ fs' = fs
                 /\ session' = session
                 /\ IF dir \in DOMAIN fs /\ fs[dir].kind = "dir"
                    THEN /\ result'.success
                         /\ Len(lines) = Cardinality(shown)
                         /\ { ListedName(lines[i]) : i \in 1..Len(lines) }
                                = { PathName(q) : q \in shown }
                         /\ \A i \in 1..(Len(lines) - 1) :
                                StrLess(ListedName(lines[i]), ListedName(lines[i + 1]))
                         /\ \A i \in 1..Len(lines) :
                                LET entry == fs[Child(dir, ListedName(lines[i]))]
                                    line == lines[i]
                                IN  IF entry.kind = "dir"
                                    THEN line[1] = "[dir] " /\ line[Len(line)] = "/"
                                    ELSE line[1] = "[file] " /\ line[Len(line)] = ")"
                    ELSE /\ ~result'.success
                         /\ result'.output = <<>>]_vars

\* the home directory holds the hidden directory .e and the file Z, both
\* written by the run; the listing without hidden entries shows Z, d/, f
C30_Witness ==
    /\ call.name = "list_directory"
    /\ call.args = EmptyArgs
    /\ result.success
    /\ <<"/", "h", "/", ".", "e">> \in DOMAIN fs
    /\ <<"/", "h", "/", "Z">> \in DOMAIN fs
    /\ [i \in 1..Len(ListingLines(result.output)) |->
           ListedName(ListingLines(result.output)[i])] = << <<"Z">>, <<"d">>, <<"f">> >>

\* the first segment of a path: what stands before its first separator,
\* backslashes taken as separators
FirstSegment(path) == Split(ReplaceBackslash(path), "/")[1]

\* the home marker stands alone or before a separator
HomeMarked(path) == path # <<>> /\ Split(path, "/")[1] = <<"~">>

\* a relative path that names no user and whose first segment is not one of
\* the known-folder aliases
PlainRelative(path) ==
    /\ path # <<>>
    /\ ~IsAbs(path)
    /\ ~StartsWith(path, <<"~">>)
    /\ Lower(FirstSegment(path)) \notin KnownFolders

\* C31: for every cwd, the empty path resolves to cwd unchanged; a path
\* whose first segment is the home marker resolves to the home directory
\* followed by the rest of the path, whatever cwd is; a relative path whose
\* first segment is not a known-folder alias resolves to cwd joined with the
\* path, so that sub/f resolves to /home/u/sub/f from /home/u.  (A home
\* marker followed by a name is the case of C32.)
C31_PathResolution ==
    resolved.done =>
        /\ raw_path = <<>> => resolved.path = resolver_cwd
        /\ HomeMarked(raw_path) => resolved.path = Home \o From(raw_path, 1)
        /\ PlainRelative(raw_path) => resolved.path = PathJoin(resolver_cwd, raw_path)
        /\ (raw_path = <<"s", "u", "b", "/", "f">>
              /\ resolver_cwd = <<"/", "h", "o", "m", "e", "/", "u">>)
           => resolved.path =
                  <<"/", "h", "o", "m", "e", "/", "u", "/", "s", "u", "b", "/", "f">>

\* a path below the home marker was resolved from a cwd that is not the
\* home directory
C31_Witness ==
    /\ resolved.done
    /\ raw_path = <<"~", "/", "x">>
    /\ resolver_cwd = <<"/", "h", "o", "m", "e", "/", "u">>
    /\ resolved.path = <<"/", "h", "/", "x">>

\* C32: whenever cwd is absolute, the resolved path is absolute, for every
\* path, those that begin with the home marker followed by a name included
C32_AbsoluteResult ==
    (resolved.done /\ IsAbs(resolver_cwd)) => IsAbs(resolved.path)

\* the home marker is followed by the name of a user
NamesUser(path) == StartsWith(path, <<"~">>) /\ ~HomeMarked(path)

\* whenever cwd is absolute, the resolved path is absolute for every path
\* but those that name a user the system does not know, and these are
\* returned as they are
C32_KnownUsers ==
    (resolved.done /\ IsAbs(resolver_cwd)) =>
        IF NamesUser(raw_path) /\ From(FirstSegment(raw_path), 1) \notin DOMAIN UserHomes
        THEN resolved.path = raw_path
        ELSE IsAbs(resolved.path)

\* this step is a successful read_file with max_lines = n given, n >= 1
ReadsLines(n) ==
    /\ Dispatching
    /\ call'.name = "read_file"
    /\ ~Mismatch(call')
    /\ "max_lines" \in DOMAIN call'.args
    /\ call'.args["max_lines"] = n
    /\ result'.success

\* the lines of the file the call c reads in the session sess
LinesRead(c, sess, fsys) == Split(fsys[Canon(fsys, Target(c, sess)).path].content, "\n")

\* the first n of the lines
FirstLines(lines, n) == SubSeq(lines, 1, IF n < Len(lines) THEN n ELSE Len(lines))

\* C33: a successful read_file with max_lines = n returns the first n lines
\* of the file, never more, followed by the truncation notice exactly when
\* lines of the file were left out.
C33_ReadFile ==
    [][\A n \in 1..3 :
          ReadsLines(n)
          => LET lines == LinesRead(call', session, fs)
                 shown == Join(FirstLines(lines, n), "\n")
             IN  result'.output =
                     IF Len(lines) > n THEN shown \o TruncationNotice(n) ELSE shown]_vars

\* a successful read_file with max_lines = n returns the first n lines of
\* the file, never more, and the notice follows them exactly when the file
\* has n lines or more
C33_NoticeFromNLines ==
    [][\A n \in 1..3 :
          ReadsLines(n)
          => LET lines == LinesRead(call', session, fs)
                 shown == Join(FirstLines(lines, n), "\n")
             IN  result'.output =
                     IF Len(lines) >= n THEN shown \o TruncationNotice(n) ELSE shown]_vars

\* the positions in steps of the tool_call steps that name task_complete
SignalSteps ==
    { i \in 1..Len(steps) :
          steps[i].type = "tool_call" /\ steps[i].tool_name = "task_complete" }

\* C34: for a callback that returns normally, every processed invocation
\* named task_complete ends the run: once the run is over, its tool_call
\* step is followed by its tool_result step and by a complete step, the last
\* step of the run, whose content is exactly the output of the ToolResult,
\* whatever its success flag; when the dispatch failed (no summary, or a
\* malformed payload replaced by the empty argument set) the content is
\* empty, while the tool_result step and the conversation record carry the
\* error.
C34_FailedSignalCompletes ==
    (pc = "done" /\ ~cb_raised) =>
        \A i \in SignalSteps :
            /\ Len(steps) = i + 2
            /\ steps[i + 1].type = "tool_result"
            /\ steps[i + 1].tool_name = "task_complete"
            /\ steps[i + 1].tool_result = result
            /\ Last(dispatched).name = "task_complete"
            /\ Last(dispatched).args = steps[i].tool_args
            /\ steps[i + 2] = AgentStep(steps[i].step_number, "complete", result.output)
            /\ ~result.success
               => /\ steps[i + 2].content = <<>>
                  /\ steps[i + 1].content # <<>>
                  /\ Last(messages) = ToolMessage(Last(dispatched).id, steps[i + 1].content)

\* a run was ended as complete, with empty content, by a task_complete whose
\* payload was malformed and whose dispatch failed
C34_Witness ==
    /\ pc = "done"
    /\ ~cb_raised
    /\ SignalSteps # {}
    /\ Malformed(message.tool_calls[tc_index])
    /\ Last(dispatched).args = EmptyArgs
    /\ ~result.success
    /\ Last(steps) = AgentStep(step_number, "complete", <<>>)

\* the arguments an invocation is dispatched with
ParsedArgs(tc) == JsonLoads(tc.arguments).value

RECURSIVE SessionsAfter(_, _, _)
\* the sessions in which dispatching the invocations tcs in order, starting
\* in one of the sessions S, can end
SessionsAfter(S, fsys, tcs) ==
    IF tcs = <<>> THEN S
    ELSE SessionsAfter({ o.session : o \in UNION { execute_tool(Head(tcs).name,
                                                        ParsedArgs(Head(tcs)), s, fsys) :
                                                    s \in S } },
                       fsys, Tail(tcs))

\* the run ended with the budget-exhaustion error step
BudgetErrorLast == steps # <<>> /\ Last(steps) = BudgetStep(max_steps)

\* the text-only response closes the task by a phrase
CompletingText(r) == TextOnly(r) /\ HasPhrase(r)

C35_CompleteInLastTurn ==
    /\ pc = "done"
    /\ ~cb_raised
    /\ max_steps = 2
    /\ planner_calls = 2
    /\ CallsTaskComplete(Last(responses))
    /\ Last(steps).type = "complete"

\* the terminal steps among the steps s
TerminalSteps(s) == SelectSeq(s, LAMBDA t : t.type \in Terminal)

\* C36: while the callback returns normally, the steps passed to on_step
\* are the steps yielded, in the same order, each passed once and before it
\* is yielded: the callback sequence is the yielded sequence, or the yielded
\* sequence followed by the one step that on_step has returned from and the
\* yield has not yet handed over; a terminal step the callback has seen is
\* the only one and its last step, and a finished run has shown it one.
\* Without a callback nothing is passed.
C36_CallbackOrder ==
    /\ ~on_step => cb_steps = <<>>
    /\ (on_step /\ ~cb_raised)
       => /\ IF pc = "yield" THEN cb_steps = Append(steps, pending) ELSE cb_steps = steps
          /\ Len(TerminalSteps(cb_steps)) <= 1
          /\ TerminalSteps(cb_steps) # <<>> => Last(cb_steps).type \in Terminal
          /\ pc = "done" => Len(TerminalSteps(cb_steps)) = 1

\* the callback has returned from the terminal step of a run of several
\* steps, and that step is not yet yielded
C36_Witness ==
    /\ on_step
    /\ ~cb_raised
    /\ pc = "yield"
    /\ Len(steps) >= 2
    /\ cb_steps = Append(steps, pending)
    /\ pending.type \in Terminal

\* the session a reset leaves
FreshSession == [cwd |-> Home, env |-> OsEnviron, history |-> <<>>]

\* C37: the session is reset exactly once in a run (one generator of
\* run_agent_loop in the process): not while the generator is constructed
\* and waits for its first next(), but when its body starts to run on the
\* first request of a step, which is before the first planner call; the
\* body never comes back to that point, and afterwards the session changes
\* only by a tool dispatch, which works on the session as the reset and the
\* earlier dispatches of the run left it.
C37_ResetOnce ==
    [][/\ (pc = "start" /\ pc' = "start") => session' = session
       /\ (pc = "start" /\ pc' # "start")
          => /\ ~suspended
             /\ session' = FreshSession
             /\ planner_calls = 0
             /\ steps = <<>>
       /\ pc # "start"
          => /\ pc' # "start"
             /\ session' # session
                => /\ pc = "execute"
                   /\ Len(dispatched') = Len(dispatched) + 1
                   /\ session' \in { o.session :
                                       o \in execute_tool(Last(dispatched').name,
                                                          Last(dispatched').args, session, fs) }
       /\ (Len(responses) = 0 /\ Len(responses') = 1) => session = FreshSession]_vars

\* a run begun in a used session has moved to /h/d by its first dispatch,
\* and its second dispatch of the same relative path has looked for d below
\* /h/d and failed
C37_Witness ==
    /\ Len(dispatched) = 2
    /\ dispatched[1].name = "change_directory"
    /\ dispatched[2] = [dispatched[1] EXCEPT !.id = dispatched[2].id]
    /\ dispatched[2].args = [path |-> <<"d">>]
    /\ session = [FreshSession EXCEPT !.cwd = <<"/", "h", "/", "d">>]
    /\ pc # "execute"
    /\ ~result.success
    /\ result.error = <<"Directory not found: ">> \o <<"/", "h", "/", "d", "/", "d">>

\* this step is a successful change_directory
ChangesDirectory == Dispatching /\ call'.name = "change_directory" /\ result'.success

\* C38: after any sequence of run starts (each resets the session) and tool
\* dispatches, by runs or for the external client, the session cwd is an
\* absolute path: a reset sets it to the home directory, a successful
\* change_directory sets it to the absolute path it reports, which exists
\* and is a directory in the file system of that moment, and no other step
\* changes it.
C38_AbsoluteCwd ==
    /\ []IsAbs(session.cwd)
    /\ [][/\ Starting => session'.cwd = Home
          /\ ChangesDirectory
             => /\ IsAbs(session'.cwd)
                /\ result'.output = <<"Changed directory to: ">> \o session'.cwd
                /\ Exists(fs, session'.cwd)
                /\ IsDir(fs, session'.cwd)
                /\ session'.cwd \in DOMAIN fs
          /\ (~Starting /\ ~ChangesDirectory) => session'.cwd = session.cwd]_vars

\* the run A moved the session and ended, the run B started (the reset
\* brought the session home) and has moved it to /h/d again
C38_Witness ==
    /\ run_phase["A"] = "over"
    /\ calls["A"] = 1
    /\ own_session["A"].cwd = <<"/", "h", "/", "d">>
    /\ run_phase["B"] = "live"
    /\ calls["B"] = 1
    /\ call.run = "B"
    /\ call.name = "change_directory"
    /\ result.success
    /\ session.cwd = <<"/", "h", "/", "d">>

\* the places of render_agent_mode between the click and the end of the
\* consuming loop
RunUnderWay == render_pc \in {"provider", "client", "for", "next"}

\* the consuming loop has ended: by the break on a terminal step, by the
\* handler of line 824, by the end of the generator
LoopEnded == render_pc \in {"ended", "caught", "exhausted"}

\* what the page holds when the loop ends on a terminal step: the steps the
\* run emitted, in order, the terminal step last and nowhere else
HoldsTheRun ==
    /\ agent_steps = steps
    /\ agent_steps # <<>>
    /\ Last(agent_steps).type \in Terminal
    /\ \A i \in 1..(Len(agent_steps) - 1) : agent_steps[i].type \notin Terminal

\* C39: agent_running is set from the click that starts a run until the
\* consuming loop ends, and is false whenever render_agent_mode has been
\* left after a click: after the break on the terminal step, after the
\* return for a missing provider, after an exception; when the loop ended
\* on a terminal step, agent_steps holds exactly the steps of the run.
C39_FlagCleared ==
    /\ RunUnderWay => agent_running
    /\ (LoopEnded \/ render_pc \in {"returned", "raised"}) => ~agent_running
    /\ render_pc = "ended" => HoldsTheRun

\* C39 for the ends the code handles: the flag is false after the break on
\* a terminal step (agent_steps then holds the run), after the return for a
\* missing provider and after an exception caught by line 824 (agent_steps
\* then holds the steps received so far); the loop never ends by the end of
\* the generator.  But an exception of get_client leaves the function with
\* the flag set, before any step of the run.
C39_HandledEnds ==
    /\ RunUnderWay => agent_running
    /\ (LoopEnded \/ render_pc = "returned") => ~agent_running
    /\ render_pc = "ended" => HoldsTheRun
    /\ render_pc = "caught" => agent_steps = steps
    /\ render_pc = "returned" => (agent_steps = <<>> /\ pc = "start")
    /\ render_pc # "exhausted"
    /\ render_pc = "raised" => (agent_running /\ agent_steps = <<>> /\ pc = "start")

\* a run of several steps was consumed to its terminal step
C39_RunConsumed ==
    /\ render_pc = "ended"
    /\ ~agent_running
    /\ Len(agent_steps) >= 4
    /\ agent_steps = steps

=============================================================================
